---- MODULE Spec2Model ----
(***************************************************************************)
(* satoshisend: the server-side lifecycle engine of a pay-per-hosting file *)
(* relay.  The model covers the metadata store (files, pending_invoices),  *)
(* the blob storage, the payment service (invoice maps and the settlement  *)
(* consumer), the per-IP pending file limiter, the expired-file cleanup    *)
(* and the HTTP handlers that drive them.                                  *)
(*                                                                         *)
(* Time is a discrete clock `now`, one tick per second.  Durations that    *)
(* the program keeps in nanoseconds are counted in units of 1/NsPerSecond  *)
(* of a tick.                                                              *)
(***************************************************************************)
EXTENDS Integers, Sequences, FiniteSets, TLC

(* ------------------------------ bounds --------------------------------- *)
\* number of distinct file ids clients use
NumFiles == 2
\* number of distinct client IPs
NumIPs == 1
\* the clock runs from 0 to MaxTime
MaxTime == 2
\* number of invoices the wallet issues
MaxHashes == 2
\* capacity of the settlement channel (make(chan InvoiceUpdate, n))
ChanCap == 1
\* settlement events queued for one hash are counted up to MaxDeliveries
MaxDeliveries == 2
\* calls made for one hash are counted up to MaxCalls
MaxCalls == 2
\* number of distinct HMAC keys (decoded webhook secrets)
NumKeys == 2
\* the replay window of a webhook timestamp, in ticks (5 minutes in the program)
Tolerance == 1
\* MaxB2Retries, the attempts of a background upload
MaxB2Retries == 3
\* InitialRetryDelay, in seconds
InitialRetryDelay == 1
\* 1024 * 1024, the bytes of the pricing unit
BytesPerMB == 1048576
\* the least amount of an invoice, in sats
MinAmountSats == 100
\* MaxUploadSize (5 << 30 in the program), here 110 MB
MaxUploadSize == 115343360
\* the largest value of an int64 (2^63 - 1 in the program)
MaxInt64 == 2000000000
\* client addresses where one file id is used from several addresses
NumSharers == 2
\* the period of the cleanup ticker, in ticks (1 hour in the program)
Interval == 2
\* the timed clock runs from 0 to MaxCleanupTime
MaxCleanupTime == 6
\* maxPending, the argument of NewPendingFileLimiter
MaxPending == 1
\* PendingTimeout, in ticks
PendingTimeout == 1
\* sub-tick resolution of a stored host_duration_ns (10^9 in the program)
NsPerSecond == 2
\* the longest hostDuration, in ticks
MaxHostSeconds == 1

FileIds == 1..NumFiles
IPs == 1..NumIPs
Hashes == 1..MaxHashes
\* hostDuration arguments, in nanosecond units: whole seconds, as every
\* caller passes (7*24*time.Hour in the handlers)
HostDurations == {NsPerSecond * d : d \in 1..MaxHostSeconds}

VARIABLES
    now,          \* wall clock (time.Now, datetime('now'))
    storage,      \* blob storage: file id -> [ip that wrote it, size]
    files,        \* table files: id -> [paid, expires_at, host_duration,
                  \*                      created_at, size]
    invoices,     \* table pending_invoices: payment_hash -> file_id
    pending,      \* Service.pending: payment hash -> PendingInvoice
    byFileID,     \* Service.byFileID: file id -> PendingInvoice
    updates,      \* the settlement channel (chan InvoiceUpdate)
    watcher,      \* the payment watcher goroutine: its position in handlePayment
    pendingByIP,  \* PendingFileLimiter.pendingByIP: ip -> (file id -> tracked time)
    fileToIP,     \* PendingFileLimiter.fileToIP: file id -> ip
    ticker,       \* when the cleanup ticker fires next (0: at unspecified times)
    ctxDone,      \* main's ctx has been cancelled
    janitor,      \* the cleanup goroutine: its position in a cleanup cycle
    nextHash,     \* the next payment hash the wallet hands out
    webhookSecret,\* AlbyHTTPClient.webhookSecret, the configured endpoint secret
    queued,       \* history: per hash, settlement events put on the channel
    markPaidCalls,\* history: per hash, UpdatePaymentStatus(fileID, true) calls
    clearCalls,   \* history: per hash, onPayment callback invocations
    markFailed,   \* history: <<hash, file>> whose UpdatePaymentStatus returned an error
    acked,        \* history: per hash, what became of the webhook answered 200
    crashed,      \* history: hashes whose handlePayment a crash cut short after UpdatePaymentStatus
    resp,         \* the response of the HTTP request served last
    wh,           \* the webhook request handled at this instant, and its result
    upload        \* the backgroundUpload of POST /api/upload and its goroutine

blob == <<storage>>
meta == <<files, invoices>>
maps == <<pending, byFileID>>
limiter == <<pendingByIP, fileToIP>>
wallet == <<nextHash, webhookSecret>>
cleaner == <<janitor, ticker, ctxDone>>
calls == <<queued, markPaidCalls, clearCalls>>
history == <<queued, markPaidCalls, clearCalls, markFailed, crashed, acked>>

vars == <<now, storage, files, invoices, pending, byFileID, updates, watcher,
          pendingByIP, fileToIP, janitor, ticker, ctxDone, nextHash,
          webhookSecret, queued,
          markPaidCalls, clearCalls, markFailed, crashed, acked, resp,
          wh, upload>>

\* a history counter that stops counting at its bound
Count(n, bound) == IF n < bound THEN n + 1 ELSE n

(* ------------------------------ maps ----------------------------------- *)
EmptyMap == [x \in {} |-> 0]

MapPut(m, k, v) == [x \in (DOMAIN m) \cup {k} |-> IF x = k THEN v ELSE m[x]]

MapDel(m, k) == [x \in (DOMAIN m) \ {k} |-> m[x]]

NoResp == [op |-> "none", id |-> 0, code |-> 0, load |-> FALSE]

NoWebhook == [seen |-> FALSE]

\* no background upload is tracked
NoUpload == [status |-> "none"]

Idle == [pc |-> "idle", hash |-> 0, file |-> 0]

JanitorIdle == [pc |-> "idle", todo |-> {}]

(* --------------------------- metadata store ---------------------------- *)
\* INSERT OR REPLACE in place of INSERT: an existing row is overwritten
SaveFileMetadataOkUpsert(tbl, id) == TRUE

\* INSERT INTO files: fails on an existing primary key
SaveFileMetadataOk(tbl, id) == id \notin DOMAIN tbl

SaveFileMetadata(tbl, id, row) == MapPut(tbl, id, row)

\* UPDATE files SET paid = 1 WHERE id = ?: the expiry is left alone
UpdatePaymentStatusPaidOnly(tbl, id, t) ==
    IF id \in DOMAIN tbl
    THEN MapPut(tbl, id, [tbl[id] EXCEPT !.paid = TRUE])
    ELSE tbl

\* an UpdatePaymentStatus that inserts a paid row when the id has none
UpdatePaymentStatusUpsert(tbl, id, t) ==
    IF id \in DOMAIN tbl
    THEN MapPut(tbl, id, [tbl[id] EXCEPT
                 !.paid = TRUE,
                 !.expires_at = t + (tbl[id].host_duration \div NsPerSecond)])
    ELSE MapPut(tbl, id, [paid |-> TRUE, expires_at |-> t, host_duration |-> 0,
                          created_at |-> t, size |-> 0])

\* UPDATE files SET paid = 1,
\*   expires_at = datetime('now', '+' || (host_duration_ns / 1000000000) || ' seconds')
\* WHERE id = ?
UpdatePaymentStatus(tbl, id, t) ==
    IF id \in DOMAIN tbl
    THEN MapPut(tbl, id, [tbl[id] EXCEPT
                 !.paid = TRUE,
                 !.expires_at = t + (tbl[id].host_duration \div NsPerSecond)])
    ELSE tbl

\* DELETE FROM files WHERE id = ?
DeleteFileMetadata(tbl, id) == MapDel(tbl, id)

\* a listing that also takes the rows expiring at this very instant
ListExpiredFilesInclusive(tbl, t) ==
    {id \in DOMAIN tbl : tbl[id].expires_at <= t}

\* SELECT ... FROM files WHERE expires_at < now
ListExpiredFiles(tbl, t) == {id \in DOMAIN tbl : tbl[id].expires_at < t}

\* pending_invoices: upsert by payment_hash
SavePendingInvoice(tbl, h, f) == MapPut(tbl, h, f)

DeletePendingInvoice(tbl, h) == MapDel(tbl, h)

(* ------------------------- pending file limiter ------------------------ *)
PendingCount(byIP, ip) ==
    IF ip \in DOMAIN byIP THEN Cardinality(DOMAIN byIP[ip]) ELSE 0

CanUpload(byIP, ip) == PendingCount(byIP, ip) < MaxPending

\* TrackPendingFile: the new pendingByIP
TrackByIP(byIP, ip, f, t) ==
    MapPut(byIP, ip,
           MapPut(IF ip \in DOMAIN byIP THEN byIP[ip] ELSE EmptyMap, f, t))

\* OnPaymentReceived: the new pendingByIP
ClearByIP(byIP, toIP, f) ==
    IF f \notin DOMAIN toIP THEN byIP
    ELSE LET ip == toIP[f] IN
         IF ip \notin DOMAIN byIP THEN byIP
         ELSE LET rest == MapDel(byIP[ip], f) IN
              IF DOMAIN rest = {} THEN MapDel(byIP, ip)
              ELSE MapPut(byIP, ip, rest)

\* OnPaymentReceived: the new fileToIP
ClearToIP(toIP, f) == MapDel(toIP, f)

\* PendingFileLimiter.CleanupExpired: entries tracked before the cutoff go
SweepByIP(byIP, cutoff) ==
    LET kept(ip) == {f \in DOMAIN byIP[ip] : ~(byIP[ip][f] < cutoff)}
        live == {ip \in DOMAIN byIP : kept(ip) # {}}
    IN [ip \in live |-> [f \in kept(ip) |-> byIP[ip][f]]]

SweepToIP(byIP, toIP, cutoff) ==
    LET gone == UNION {{f \in DOMAIN byIP[ip] : byIP[ip][f] < cutoff} :
                       ip \in DOMAIN byIP}
    IN [f \in (DOMAIN toIP) \ gone |-> toIP[f]]

(* --------------------------- webhook requests -------------------------- *)
Keys == 1..NumKeys

\* a configured secret: an optional "whsec_" prefix, then a text that is the
\* base64 of a key (1..NumKeys) or is not base64 at all (0)
Secrets == [prefixed : BOOLEAN, text : 0..NumKeys]

\* strings.HasPrefix(secret, "whsec_") -> secret[6:]
TrimPrefix(secret) == [secret EXCEPT !.prefixed = FALSE]

\* base64.StdEncoding.DecodeString: '_' is outside the alphabet, so a text
\* that still carries the prefix does not decode
DecodeString(secret) ==
    IF secret.prefixed \/ secret.text = 0
    THEN [err |-> TRUE, bytes |-> 0]
    ELSE [err |-> FALSE, bytes |-> secret.text]

\* base64(HMAC-SHA256(key, "{id}.{timestamp}.{body}")): distinct keys or
\* distinct signed contents give distinct signatures
Mac(key, id, ts, body) == <<key, id, ts, body>>

\* svix-id values: 0 is the absent (empty) header
SvixIds == 0..1

\* svix-timestamp values: absent, not a number, or seconds since the epoch
TsHeaders ==
    {[kind |-> "empty", unix |-> 0], [kind |-> "text", unix |-> 0]}
        \cup {[kind |-> "int", unix |-> n] : n \in 0..MaxTime}

\* request bodies: not JSON, or an AlbyWebhookPayload
NotJSON == [json |-> FALSE, settled |-> FALSE, hash |-> 0]

Bodies ==
    {NotJSON, [json |-> TRUE, settled |-> TRUE, hash |-> 1],
     [json |-> TRUE, settled |-> FALSE, hash |-> 1],
     [json |-> TRUE, settled |-> TRUE, hash |-> 0]}

\* some other id, timestamp and body than the ones given
OtherId(id) == id + 1

OtherTs(ts) == [kind |-> "int", unix |-> ts.unix + 1]

OtherBody(body) == IF body = NotJSON THEN [NotJSON EXCEPT !.json = TRUE]
                                     ELSE NotJSON

\* one space-separated entry of svix-signature: "v1,<sig>", "v2,<sig>", or
\* an entry without a comma
NoComma == [parts |-> 1, version |-> "v1", sig |-> <<>>]

\* the entry "<version>,<sig>" where sig is made with key k over (id, ts, body)
Signed(v, k, id, ts, body) ==
    [parts |-> 2, version |-> v, sig |-> Mac(k, id, ts, body)]

\* entries a sender may attach to a request: a signature of the request's
\* own content under any key and version, a v1 signature of a content that
\* differs in one field, or an entry without a comma
SigEntries(id, ts, body) ==
    {NoComma}
        \cup {Signed(v, k, id, ts, body) : v \in {"v1", "v2"}, k \in Keys}
        \cup {Signed("v1", k, OtherId(id), ts, body) : k \in Keys}
        \cup {Signed("v1", k, id, OtherTs(ts), body) : k \in Keys}
        \cup {Signed("v1", k, id, ts, OtherBody(body)) : k \in Keys}

\* svix-signature values: absent, one entry, or a v1 signature of the
\* request's own content next to an entry without a comma
SigHeaders(id, ts, body) ==
    {<<>>}
        \cup {<<e>> : e \in SigEntries(id, ts, body)}
        \cup {<<NoComma, Signed("v1", k, id, ts, body)>> : k \in Keys}
        \cup {<<Signed("v1", k, id, ts, body), NoComma>> : k \in Keys}

(* ------------------------------- Init ---------------------------------- *)
\* the state after main has built the services, with the given secret and
\* the given first firing time of the cleanup ticker
Boot(secret, due) ==
    /\ webhookSecret = secret
    /\ ticker = due
    /\ ctxDone = FALSE
    /\ now = 0
    /\ storage = EmptyMap
    /\ files = EmptyMap
    /\ invoices = EmptyMap
    /\ pending = EmptyMap
    /\ byFileID = EmptyMap
    /\ updates = <<>>
    /\ watcher = Idle
    /\ pendingByIP = EmptyMap
    /\ fileToIP = EmptyMap
    /\ janitor = JanitorIdle
    /\ nextHash = 1
    /\ queued = [h \in Hashes |-> 0]
    /\ markPaidCalls = [h \in Hashes |-> 0]
    /\ clearCalls = [h \in Hashes |-> 0]
    /\ markFailed = {}
    /\ crashed = {}
    /\ acked = [h \in Hashes |-> "no"]
    /\ resp = NoResp
    /\ wh = NoWebhook
    /\ upload = NoUpload

Start(secret) == Boot(secret, 0)

Init == Start([prefixed |-> TRUE, text |-> 1])

(* ------------------------------ clock ---------------------------------- *)
Tick ==
    /\ now < MaxTime
    /\ now' = now + 1
    /\ resp' = NoResp
    /\ wh' = NoWebhook
    /\ UNCHANGED upload
    /\ UNCHANGED <<blob, meta, maps, updates, watcher, limiter, cleaner,
                   wallet, history>>

(* ---------------------------- upload handlers -------------------------- *)
\* an object in storage: who streamed it, and its bytes (one byte where
\* the size of the body is of no interest)
Object(ip, n) == [ip |-> ip, size |-> n]

\* PUT /api/upload/{id} from ip: UploadWithID -> SaveWithProgress creates
\* (or truncates) the object and copies the body into it.
handleUploadStream(ip, f) ==
    /\ storage' = MapPut(storage, f, Object(ip, 1))
    /\ resp' = NoResp
    /\ UNCHANGED <<now, meta, maps, updates, watcher, limiter, cleaner,
                   wallet, history, wh, upload>>

\* PUT /api/upload/{id} from ip where the body breaks off after some bytes:
\* SaveWithProgress returns the error, UploadWithID and the handler pass it
\* on (500) and delete nothing.  FSStorage has created (or truncated) the
\* file by then and keeps what was written; B2Storage's PutObject leaves
\* the bucket as it was.
handleUploadStreamFails(ip, f) ==
    /\ \/ storage' = MapPut(storage, f, Object(ip, 1))
       \/ UNCHANGED storage
    /\ resp' = [op |-> "stream", id |-> f, code |-> 500, load |-> FALSE]
    /\ UNCHANGED <<now, meta, maps, updates, watcher, limiter, cleaner,
                   wallet, history, wh, upload>>

\* PUT /api/upload/{id} from ip with Content-Length n: refused when n is
\* not positive (400) or above MaxUploadSize (413), else stored as n bytes
handleUploadStreamSize(ip, f, n) ==
    /\ IF n <= 0 \/ n > MaxUploadSize
       THEN /\ resp' = [op |-> "stream", id |-> f,
                        code |-> IF n <= 0 THEN 400 ELSE 413, load |-> FALSE]
            /\ UNCHANGED storage
       ELSE /\ storage' = MapPut(storage, f, Object(ip, n))
            /\ resp' = NoResp
    /\ UNCHANGED <<now, meta, maps, updates, watcher, limiter, cleaner,
                   wallet, history, wh, upload>>

\* B2Storage.Stat(f): the size of the object, 0 (with ErrNotFound) when
\* there is none
StatSize(f) == IF f \in DOMAIN storage THEN storage[f].size ELSE 0

\* CompleteUpload that inserts the row without the Stat of the object
CompleteUploadOkNoStat(f) == SaveFileMetadataOk(files, f)

\* CompleteUpload that goes on when the insert of the row has failed
CompleteUploadOkIgnoresInsert(f) == f \in DOMAIN storage

\* CompleteUpload: Stat the object, then insert the metadata row
CompleteUploadOk(f) == f \in DOMAIN storage /\ SaveFileMetadataOk(files, f)

\* the error CompleteUpload returns: Stat's ErrNotFound as a new error, or
\* the error of the INSERT on an existing primary key
CompleteUploadError(f) ==
    IF f \notin DOMAIN storage THEN "file not found in storage"
    ELSE IF ~SaveFileMetadataOk(files, f)
         THEN "UNIQUE constraint failed: files.id"
         ELSE "none"

\* the answer of POST /api/upload/complete: http.Error(w, err.Error(), 400)
\* on an error of CompleteUpload, 500 when the invoice cannot be created
CompleteResp(f, code) ==
    [op |-> "complete", id |-> f, code |-> code, load |-> FALSE,
     err |-> CompleteUploadError(f)]

\* ExpiresAt: time.Now().Add(PendingTimeout), CreatedAt: time.Now(), with
\* both readings of the clock in the same tick
NewFileMeta(hd, actualSize) ==
    [paid |-> FALSE, expires_at |-> now + PendingTimeout, host_duration |-> hd,
     created_at |-> now, size |-> actualSize]

\* a price without the minimum
amountSatsNoMinimum(size) == size \div BytesPerMB

\* the price of the handlers: 1 sat per MB, minimum 100 sats
amountSats(size) ==
    IF size \div BytesPerMB < MinAmountSats THEN MinAmountSats
    ELSE size \div BytesPerMB

\* UploadCompleteResponse: the size CompleteUpload returned and the amount
\* of the invoice created for amountSats of that size
UploadCompleteResponse(f) ==
    [op |-> "complete", id |-> f, code |-> 200, load |-> FALSE,
     err |-> CompleteUploadError(f), size |-> StatSize(f),
     amount_sats |-> amountSats(StatSize(f))]

\* CreateInvoiceForFile: both maps get the same PendingInvoice
NewPendingInvoice(f, h) == [FileID |-> f, PaymentHash |-> h]

\* POST /api/upload/complete from ip, refused: no object in storage, or the
\* row exists already
handleUploadCompleteRefused(ip, f) ==
    /\ ~CompleteUploadOk(f)
    /\ resp' = NoResp
    /\ UNCHANGED <<now, blob, meta, maps, updates, watcher, limiter, cleaner,
                   wallet, history, wh, upload>>

\* the same refused request, with its answer
handleUploadCompleteError(ip, f) ==
    /\ ~CompleteUploadOk(f)
    /\ resp' = CompleteResp(f, 400)
    /\ UNCHANGED <<now, blob, meta, maps, updates, watcher, limiter, cleaner,
                   wallet, history, wh, upload>>

\* POST /api/upload/complete from ip: the row is saved, the wallet fails to
\* create the invoice
handleUploadCompleteNoInvoice(ip, f, hd) ==
    /\ CompleteUploadOk(f)
    /\ files' = SaveFileMetadata(files, f, NewFileMeta(hd, StatSize(f)))
    /\ resp' = CompleteResp(f, 500)
    /\ UNCHANGED <<now, blob, invoices, maps, updates, watcher, limiter,
                   cleaner, wallet, history, wh, upload>>

\* POST /api/upload/complete from ip: row saved, invoice minted and
\* persisted, file tracked by the limiter
handleUploadComplete(ip, f, hd) ==
    /\ CompleteUploadOk(f)
    /\ nextHash <= MaxHashes
    /\ LET h == nextHash IN
        /\ files' = SaveFileMetadata(files, f, NewFileMeta(hd, StatSize(f)))
        /\ pending' = MapPut(pending, h, NewPendingInvoice(f, h))
        /\ byFileID' = MapPut(byFileID, f, NewPendingInvoice(f, h))
        /\ invoices' = SavePendingInvoice(invoices, h, f)
        /\ nextHash' = h + 1
        /\ UNCHANGED webhookSecret
    /\ pendingByIP' = TrackByIP(pendingByIP, ip, f, now)
    /\ fileToIP' = MapPut(fileToIP, f, ip)
    /\ resp' = UploadCompleteResponse(f)
    /\ UNCHANGED <<now, blob, updates, watcher, cleaner, history, wh, upload>>

\* POST /api/upload/complete from ip where the clock moves on by a tick
\* between the time.Now() of ExpiresAt and the time.Now() of CreatedAt
handleUploadCompleteLate(ip, f, hd) ==
    /\ CompleteUploadOk(f)
    /\ nextHash <= MaxHashes
    /\ now < MaxTime
    /\ now' = now + 1
    /\ LET h == nextHash IN
        /\ files' = SaveFileMetadata(files, f,
                        [NewFileMeta(hd, StatSize(f))
                            EXCEPT !.created_at = now + 1])
        /\ pending' = MapPut(pending, h, NewPendingInvoice(f, h))
        /\ byFileID' = MapPut(byFileID, f, NewPendingInvoice(f, h))
        /\ invoices' = SavePendingInvoice(invoices, h, f)
        /\ nextHash' = h + 1
        /\ UNCHANGED webhookSecret
    /\ pendingByIP' = TrackByIP(pendingByIP, ip, f, now + 1)
    /\ fileToIP' = MapPut(fileToIP, f, ip)
    /\ resp' = UploadCompleteResponse(f)
    /\ wh' = NoWebhook
    /\ UNCHANGED upload
    /\ UNCHANGED <<blob, updates, watcher, cleaner, history>>

(* ------------------------- settlement delivery ------------------------- *)
\* HandleWebhook for a verified notification with settled = true and
\* payment_hash h: a non-blocking send, dropped when the channel is full
HandleWebhookSettled(h) ==
    /\ h < nextHash
    /\ IF Len(updates) < ChanCap
       THEN /\ updates' = Append(updates, h)
            /\ queued' = [queued EXCEPT
                            ![h] = Count(@, MaxDeliveries)]
       ELSE UNCHANGED <<updates, queued>>
    /\ resp' = NoResp
    /\ UNCHANGED <<now, blob, meta, maps, watcher, limiter, cleaner, wallet,
                   markPaidCalls, clearCalls, markFailed, crashed, acked, wh, upload>>

\* POST /api/webhook/alby from a wallet that retries a webhook only until it
\* is answered 200: handleAlbyWebhook answers 200 whenever HandleWebhook
\* returns nil, which it does whether the update was queued or dropped
handleAlbyWebhook(h) ==
    /\ h < nextHash
    /\ acked[h] = "no"
    /\ IF Len(updates) < ChanCap
       THEN /\ updates' = Append(updates, h)
            /\ queued' = [queued EXCEPT ![h] = Count(@, MaxDeliveries)]
            /\ acked' = [acked EXCEPT ![h] = "queued"]
       ELSE /\ acked' = [acked EXCEPT ![h] = "dropped"]
            /\ UNCHANGED <<updates, queued>>
    /\ resp' = NoResp
    /\ UNCHANGED <<now, blob, meta, maps, watcher, limiter, cleaner, wallet,
                   markPaidCalls, clearCalls, markFailed, crashed, wh, upload>>

(* ------------------------ webhook verification ------------------------- *)
\* verifyWebhookSignature without the check for timestamps in the future
verifyWebhookSignatureOldOnly(secret, t, req) ==
    IF req.id = 0 \/ req.ts.kind = "empty" \/ req.sig = <<>>
    THEN "missing SVIX headers"
    ELSE IF req.ts.kind # "int" THEN "invalid timestamp"
    ELSE IF t - req.ts.unix > Tolerance
    THEN "timestamp too old or in future"
    ELSE LET key == DecodeString(TrimPrefix(secret)) IN
         IF key.err THEN "failed to decode secret"
         ELSE IF \E i \in 1..Len(req.sig) :
                    /\ req.sig[i].parts = 2
                    /\ req.sig[i].version = "v1"
                    /\ req.sig[i].sig = Mac(key.bytes, req.id, req.ts, req.body)
              THEN "none"
              ELSE "signature mismatch"

\* verifyWebhookSignature at time t: the error it returns ("none" for nil)
verifyWebhookSignature(secret, t, req) ==
    IF req.id = 0 \/ req.ts.kind = "empty" \/ req.sig = <<>>
    THEN "missing SVIX headers"
    ELSE IF req.ts.kind # "int" THEN "invalid timestamp"
    ELSE IF t - req.ts.unix > Tolerance \/ req.ts.unix - t > Tolerance
    THEN "timestamp too old or in future"
    ELSE LET key == DecodeString(TrimPrefix(secret)) IN
         IF key.err THEN "failed to decode secret"
         ELSE IF \E i \in 1..Len(req.sig) :
                    /\ req.sig[i].parts = 2
                    /\ req.sig[i].version = "v1"
                    /\ req.sig[i].sig = Mac(key.bytes, req.id, req.ts, req.body)
              THEN "none"
              ELSE "signature mismatch"

\* HandleWebhook's result for a request at time t
HandleWebhookError(secret, t, req) ==
    IF verifyWebhookSignature(secret, t, req) # "none"
    THEN verifyWebhookSignature(secret, t, req)
    ELSE IF ~req.body.json THEN "failed to parse payload"
    ELSE "none"

\* HandleWebhook without the test of payload.Settled
HandleWebhookAnyState(req) ==
    LET err == HandleWebhookError(webhookSecret, now, req) IN
    /\ wh' = [seen |-> TRUE, req |-> req, err |-> err]
    /\ UNCHANGED upload
    /\ IF /\ err = "none"
          /\ req.body.hash # 0
          /\ Len(updates) < ChanCap
       THEN /\ updates' = Append(updates, req.body.hash)
            /\ queued' = [queued EXCEPT
                            ![req.body.hash] = Count(@, MaxDeliveries)]
       ELSE UNCHANGED <<updates, queued>>
    /\ resp' = NoResp
    /\ UNCHANGED <<now, blob, meta, maps, watcher, limiter, cleaner, wallet,
                   markPaidCalls, clearCalls, markFailed, crashed, acked>>

\* POST /api/webhook/alby -> HandleWebhook(body, headers): verify, parse,
\* and put a settled payment hash on the channel unless the channel is full
HandleWebhook(req) ==
    LET err == HandleWebhookError(webhookSecret, now, req) IN
    /\ wh' = [seen |-> TRUE, req |-> req, err |-> err]
    /\ UNCHANGED upload
    /\ IF /\ err = "none"
          /\ req.body.settled
          /\ req.body.hash # 0
          /\ Len(updates) < ChanCap
       THEN /\ updates' = Append(updates, req.body.hash)
            /\ queued' = [queued EXCEPT
                            ![req.body.hash] = Count(@, MaxDeliveries)]
       ELSE UNCHANGED <<updates, queued>>
    /\ resp' = NoResp
    /\ UNCHANGED <<now, blob, meta, maps, watcher, limiter, cleaner, wallet,
                   markPaidCalls, clearCalls, markFailed, crashed, acked>>

(* --------------------------- payment watcher --------------------------- *)
\* handlePayment without the two deletes: the entry stays in the maps
handlePaymentLookupNoDelete ==
    /\ watcher.pc = "idle"
    /\ updates # <<>>
    /\ LET h == Head(updates) IN
        /\ updates' = Tail(updates)
        /\ IF h \in DOMAIN pending
           THEN watcher' = [pc |-> "mark", hash |-> h,
                            file |-> pending[h].FileID]
           ELSE UNCHANGED watcher
    /\ resp' = NoResp
    /\ UNCHANGED <<now, blob, meta, maps, limiter, cleaner, wallet, history,
                   wh, upload>>

\* handlePayment deleting from byFileID only: the hash stays in pending
handlePaymentLookupKeepsHash ==
    /\ watcher.pc = "idle"
    /\ updates # <<>>
    /\ LET h == Head(updates) IN
        /\ updates' = Tail(updates)
        /\ IF h \in DOMAIN pending
           THEN /\ byFileID' = MapDel(byFileID, pending[h].FileID)
                /\ watcher' = [pc |-> "mark", hash |-> h,
                               file |-> pending[h].FileID]
           ELSE UNCHANGED <<byFileID, watcher>>
    /\ pending' = pending
    /\ resp' = NoResp
    /\ UNCHANGED <<now, blob, meta, limiter, cleaner, wallet, history, wh, upload>>

\* a handlePayment that goes on to UpdatePaymentStatus for a hash it did
\* not find in pending
handlePaymentLookupAnyHash ==
    /\ watcher.pc = "idle"
    /\ updates # <<>>
    /\ LET h == Head(updates) IN
        /\ updates' = Tail(updates)
        /\ IF h \in DOMAIN pending
           THEN /\ pending' = MapDel(pending, h)
                /\ byFileID' = MapDel(byFileID, pending[h].FileID)
                /\ watcher' = [pc |-> "mark", hash |-> h,
                               file |-> pending[h].FileID]
           ELSE /\ watcher' = [pc |-> "mark", hash |-> h, file |-> 0]
                /\ UNCHANGED <<pending, byFileID>>
    /\ resp' = NoResp
    /\ UNCHANGED <<now, blob, meta, limiter, cleaner, wallet, history, wh, upload>>

\* a handlePayment that goes from its locked section straight to the
\* callback, without store.UpdatePaymentStatus
handlePaymentLookupCallbackFirst ==
    /\ watcher.pc = "idle"
    /\ updates # <<>>
    /\ LET h == Head(updates) IN
        /\ updates' = Tail(updates)
        /\ IF h \in DOMAIN pending
           THEN /\ pending' = MapDel(pending, h)
                /\ byFileID' = MapDel(byFileID, pending[h].FileID)
                /\ watcher' = [pc |-> "cb", hash |-> h,
                               file |-> pending[h].FileID]
           ELSE UNCHANGED <<pending, byFileID, watcher>>
    /\ resp' = NoResp
    /\ UNCHANGED <<now, blob, meta, limiter, cleaner, wallet, history, wh, upload>>

\* StartPaymentWatcher receives an update; handlePayment's locked section
\* looks the hash up and removes it from both maps
handlePaymentLookup ==
    /\ watcher.pc = "idle"
    /\ updates # <<>>
    /\ LET h == Head(updates) IN
        /\ updates' = Tail(updates)
        /\ IF h \in DOMAIN pending
           THEN /\ pending' = MapDel(pending, h)
                /\ byFileID' = MapDel(byFileID, pending[h].FileID)
                /\ watcher' = [pc |-> "mark", hash |-> h,
                               file |-> pending[h].FileID]
           ELSE UNCHANGED <<pending, byFileID, watcher>>
    /\ resp' = NoResp
    /\ UNCHANGED <<now, blob, meta, limiter, cleaner, wallet, history, wh, upload>>

\* handlePayment: store.UpdatePaymentStatus(fileID, true); ErrNotFound is
\* logged and the handler goes on
handlePaymentMarkPaid ==
    /\ watcher.pc = "mark"
    /\ files' = UpdatePaymentStatus(files, watcher.file, now)
    /\ markPaidCalls' = [markPaidCalls EXCEPT
                          ![watcher.hash] = Count(@, MaxCalls)]
    /\ watcher' = [watcher EXCEPT !.pc = "del"]
    /\ resp' = NoResp
    /\ UNCHANGED <<now, blob, invoices, maps, updates, limiter, cleaner,
                   wallet, queued, clearCalls, markFailed, crashed, acked, wh, upload>>

\* handlePayment: store.UpdatePaymentStatus returns a database error; it is
\* logged as CRITICAL and the handler goes on
handlePaymentMarkPaidFails ==
    /\ watcher.pc = "mark"
    /\ watcher.file \in DOMAIN files
    /\ markPaidCalls' = [markPaidCalls EXCEPT
                          ![watcher.hash] = Count(@, MaxCalls)]
    /\ markFailed' = markFailed \cup {<<watcher.hash, watcher.file>>}
    /\ watcher' = [watcher EXCEPT !.pc = "del"]
    /\ resp' = NoResp
    /\ UNCHANGED <<now, blob, meta, maps, updates, limiter, cleaner, wallet,
                   queued, clearCalls, crashed, acked, wh, upload>>

\* handlePayment: the settled invoice's row leaves pending_invoices
handlePaymentDeleteInvoice ==
    /\ watcher.pc = "del"
    /\ invoices' = DeletePendingInvoice(invoices, watcher.hash)
    /\ watcher' = [watcher EXCEPT !.pc = "cb"]
    /\ resp' = NoResp
    /\ UNCHANGED <<now, blob, files, maps, updates, limiter, cleaner, wallet,
                   history, wh, upload>>

\* handlePayment: cb(pending.FileID), wired to PendingFileLimiter.OnPaymentReceived
handlePaymentCallback ==
    /\ watcher.pc = "cb"
    /\ pendingByIP' = ClearByIP(pendingByIP, fileToIP, watcher.file)
    /\ fileToIP' = ClearToIP(fileToIP, watcher.file)
    /\ clearCalls' = [clearCalls EXCEPT ![watcher.hash] = Count(@, MaxCalls)]
    /\ watcher' = Idle
    /\ resp' = NoResp
    /\ UNCHANGED <<now, blob, meta, maps, updates, cleaner, wallet, queued,
                   markPaidCalls, markFailed, crashed, acked, wh, upload>>

(* ------------------------------ cleanup -------------------------------- *)
\* the hourly ticker fires: CleanupExpired lists the expired rows
CleanupList ==
    /\ janitor.pc = "idle"
    /\ janitor' = [pc |-> "sweep", todo |-> ListExpiredFiles(files, now)]
    /\ resp' = NoResp
    /\ UNCHANGED <<ticker, ctxDone, now, blob, meta, maps, updates, watcher, limiter, wallet,
                   history, wh, upload>>

\* the hourly ticker fires and ListExpiredFiles fails: CleanupExpired returns
\* the error, nothing is deleted, the limiter is still swept
CleanupListError ==
    /\ janitor.pc = "idle"
    /\ ListExpiredFiles(files, now) # {}
    /\ janitor' = [pc |-> "sweep", todo |-> {}]
    /\ resp' = NoResp
    /\ UNCHANGED <<ticker, ctxDone, now, blob, meta, maps, updates, watcher, limiter, wallet,
                   history, wh, upload>>

\* a cleanup of one listed file that deletes the object and leaves the row
CleanupItemKeepsRow(f) ==
    /\ janitor.pc = "sweep"
    /\ f \in janitor.todo
    /\ storage' = MapDel(storage, f)
    /\ janitor' = [janitor EXCEPT !.todo = @ \ {f}]
    /\ resp' = NoResp
    /\ UNCHANGED <<ticker, ctxDone, now, meta, maps, updates, watcher, limiter, wallet,
                   history, wh, upload>>

\* CleanupExpired, one listed file: storage.Delete (a missing object counts
\* as deleted), then store.DeleteFileMetadata
CleanupItem(f) ==
    /\ janitor.pc = "sweep"
    /\ f \in janitor.todo
    /\ storage' = MapDel(storage, f)
    /\ files' = DeleteFileMetadata(files, f)
    /\ janitor' = [janitor EXCEPT !.todo = @ \ {f}]
    /\ resp' = NoResp
    /\ UNCHANGED <<ticker, ctxDone, now, invoices, maps, updates, watcher, limiter, wallet,
                   history, wh, upload>>

\* a cleanup that deletes the row of a file whose storage.Delete failed
CleanupItemStorageErrorDropsRow(f) ==
    /\ janitor.pc = "sweep"
    /\ f \in janitor.todo
    /\ f \in DOMAIN storage
    /\ files' = DeleteFileMetadata(files, f)
    /\ janitor' = [janitor EXCEPT !.todo = @ \ {f}]
    /\ resp' = NoResp
    /\ UNCHANGED <<ticker, ctxDone, now, blob, invoices, maps, updates, watcher, limiter,
                   wallet, history, wh, upload>>

\* CleanupExpired, one listed file whose storage.Delete fails: the row stays
CleanupItemStorageError(f) ==
    /\ janitor.pc = "sweep"
    /\ f \in janitor.todo
    /\ f \in DOMAIN storage
    /\ janitor' = [janitor EXCEPT !.todo = @ \ {f}]
    /\ resp' = NoResp
    /\ UNCHANGED <<ticker, ctxDone, now, blob, meta, maps, updates, watcher, limiter, wallet,
                   history, wh, upload>>

\* CleanupExpired, one listed file whose store.DeleteFileMetadata fails after
\* the object was deleted: the row stays without its object
CleanupItemMetadataError(f) ==
    /\ janitor.pc = "sweep"
    /\ f \in janitor.todo
    /\ f \in DOMAIN files
    /\ storage' = MapDel(storage, f)
    /\ janitor' = [janitor EXCEPT !.todo = @ \ {f}]
    /\ resp' = NoResp
    /\ UNCHANGED <<ticker, ctxDone, now, meta, maps, updates, watcher, limiter, wallet,
                   history, wh, upload>>

\* the cycle ends with pendingLimiter.CleanupExpired(files.PendingTimeout)
CleanupLimiter ==
    /\ janitor.pc = "sweep"
    /\ janitor.todo = {}
    /\ pendingByIP' = SweepByIP(pendingByIP, now - PendingTimeout)
    /\ fileToIP' = SweepToIP(pendingByIP, fileToIP, now - PendingTimeout)
    /\ janitor' = JanitorIdle
    /\ resp' = NoResp
    /\ UNCHANGED <<ticker, ctxDone, now, blob, meta, maps, updates, watcher, wallet, history,
                   wh, upload>>

(* --------------------------- timed cleanup ----------------------------- *)
\* the ticker fires at its due time: CleanupExpired lists the expired rows,
\* and the ticker is due again one period later
TickerFires ==
    /\ janitor.pc = "idle"
    /\ ticker > 0
    /\ now = ticker
    /\ janitor' = [pc |-> "sweep", todo |-> ListExpiredFiles(files, now)]
    /\ ticker' = ticker + Interval
    /\ UNCHANGED ctxDone
    /\ resp' = NoResp
    /\ UNCHANGED <<now, blob, meta, maps, updates, watcher, limiter, wallet,
                   history, wh, upload>>

\* the clock of a process whose cleanup goroutine runs when its ticker
\* fires and finishes a cycle before the next second
TickTimed ==
    /\ now < MaxCleanupTime
    /\ janitor.pc = "idle"
    /\ now < ticker
    /\ now' = now + 1
    /\ resp' = NoResp
    /\ wh' = NoWebhook
    /\ UNCHANGED upload
    /\ UNCHANGED <<blob, meta, maps, updates, watcher, limiter, cleaner,
                   wallet, history>>

(* --------------------------- crash and restart ------------------------- *)
\* LoadPendingInvoices: every pending_invoices row enters both maps
LoadedPending == [h \in DOMAIN invoices |-> NewPendingInvoice(invoices[h], h)]

\* of two rows for one file, byFileID keeps the one loaded last
LoadedByFileID ==
    LET fs == {invoices[h] : h \in DOMAIN invoices} IN
    {m \in [fs -> DOMAIN invoices] : \A f \in fs : invoices[m[f]] = f}

\* the process dies and main runs again: the maps are rebuilt from
\* pending_invoices; the limiter, the channel and both goroutines start afresh
Restart ==
    /\ pending' = LoadedPending
    /\ \E m \in LoadedByFileID :
         byFileID' = [f \in DOMAIN m |-> NewPendingInvoice(f, m[f])]
    /\ updates' = <<>>
    /\ watcher' = Idle
    /\ pendingByIP' = EmptyMap
    /\ fileToIP' = EmptyMap
    /\ janitor' = JanitorIdle
    /\ crashed' = IF watcher.pc = "del" THEN crashed \cup {watcher.hash}
                                         ELSE crashed
    /\ resp' = NoResp
    /\ upload' = NoUpload
    /\ ctxDone' = FALSE
    /\ UNCHANGED <<ticker, now, blob, meta, wallet, calls, markFailed, acked,
                   wh>>

(* --------------------------- specifications ---------------------------- *)
\* one life of the process
Next ==
    \/ Tick
    \/ \E ip \in IPs, f \in FileIds : handleUploadStream(ip, f)
    \/ \E ip \in IPs, f \in FileIds : handleUploadCompleteRefused(ip, f)
    \/ \E ip \in IPs, f \in FileIds, hd \in HostDurations :
         handleUploadCompleteNoInvoice(ip, f, hd)
    \/ \E ip \in IPs, f \in FileIds, hd \in HostDurations :
         handleUploadComplete(ip, f, hd)
    \/ \E h \in Hashes : HandleWebhookSettled(h)
    \/ handlePaymentLookup
    \/ handlePaymentMarkPaid
    \/ handlePaymentMarkPaidFails
    \/ handlePaymentDeleteInvoice
    \/ handlePaymentCallback
    \/ CleanupList
    \/ CleanupListError
    \/ \E f \in FileIds : CleanupItem(f)
    \/ \E f \in FileIds : CleanupItemStorageError(f)
    \/ \E f \in FileIds : CleanupItemMetadataError(f)
    \/ CleanupLimiter

Spec == Init /\ [][Next]_vars

\* the process may die and be started again at any moment
NextRestart == Next \/ Restart

SpecRestart == Init /\ [][NextRestart]_vars

(* --------------------------- read-only requests ------------------------ *)
\* POST /api/upload/init from ip with a valid size: refused with 429 when
\* the limiter says the IP is at its bound, otherwise an id is handed out
handleUploadInit(ip) ==
    /\ resp' = [op |-> "init", id |-> ip,
                code |-> IF CanUpload(pendingByIP, ip) THEN 200 ELSE 429,
                load |-> FALSE]
    /\ UNCHANGED <<now, blob, meta, maps, updates, watcher, limiter, cleaner,
                   wallet, history, wh, upload>>

\* DownloadSeekable without the paid check
DownloadSeekableNoPaidCheck(x) ==
    IF x \notin DOMAIN files THEN "store.ErrNotFound"
    ELSE IF now > files[x].expires_at THEN "ErrExpired"
    ELSE IF x \notin DOMAIN storage THEN "files.ErrNotFound"
    ELSE "ok"

\* DownloadSeekable: the error it returns ("ok" when the stream is opened)
DownloadSeekable(x) ==
    IF x \notin DOMAIN files THEN "store.ErrNotFound"
    ELSE IF ~files[x].paid THEN "ErrNotPaid"
    ELSE IF now > files[x].expires_at THEN "ErrExpired"
    ELSE IF x \notin DOMAIN storage THEN "files.ErrNotFound"
    ELSE "ok"

\* handleDownload: the status code for each outcome of DownloadSeekable
DownloadStatus(err) ==
    CASE err = "ErrNotPaid" -> 402
      [] err = "ErrExpired" -> 410
      [] err = "store.ErrNotFound" -> 404
      [] err = "ok" -> 200
      [] OTHER -> 500

\* GET /api/file/{id}
handleDownload(x) ==
    /\ resp' = [op |-> "download", id |-> x,
                code |-> DownloadStatus(DownloadSeekable(x)),
                load |-> (DownloadSeekable(x) = "ok")]
    /\ UNCHANGED <<now, blob, meta, maps, updates, watcher, limiter, cleaner,
                   wallet, history, wh, upload>>

\* one life of the process, with the requests that only read
NextHTTP ==
    \/ Next
    \/ \E ip \in IPs : handleUploadInit(ip)
    \/ \E x \in FileIds : handleDownload(x)

SpecHTTP == Init /\ [][NextHTTP]_vars

(* ------------------------ failing invoice rows ------------------------- *)
\* a failed mint that leaves its two entries in the maps
handleUploadCompleteInvoiceNotSavedNoRollback(ip, f, hd) ==
    /\ CompleteUploadOk(f)
    /\ nextHash <= MaxHashes
    /\ LET h == nextHash IN
        /\ files' = SaveFileMetadata(files, f, NewFileMeta(hd, StatSize(f)))
        /\ pending' = MapPut(pending, h, NewPendingInvoice(f, h))
        /\ byFileID' = MapPut(byFileID, f, NewPendingInvoice(f, h))
        /\ nextHash' = h + 1
        /\ UNCHANGED <<invoices, webhookSecret>>
    /\ resp' = NoResp
    /\ UNCHANGED <<now, blob, updates, watcher, limiter, cleaner, history,
                   wh, upload>>

\* POST /api/upload/complete from ip where CreateInvoiceForFile gets its
\* invoice from the wallet, updates both maps, fails to write the
\* pending_invoices row, rolls the maps back and returns the error: the
\* handler answers 500 and tracks nothing
handleUploadCompleteInvoiceNotSaved(ip, f, hd) ==
    /\ CompleteUploadOk(f)
    /\ nextHash <= MaxHashes
    /\ files' = SaveFileMetadata(files, f, NewFileMeta(hd, StatSize(f)))
    /\ nextHash' = nextHash + 1
    /\ UNCHANGED <<pending, byFileID, invoices, webhookSecret>>
    /\ resp' = NoResp
    /\ UNCHANGED <<now, blob, updates, watcher, limiter, cleaner, history,
                   wh, upload>>

\* uploads, settlements and the cleanup, with mints whose row is not saved
NextMint ==
    \/ Tick
    \/ \E ip \in IPs, f \in FileIds : handleUploadStream(ip, f)
    \/ \E ip \in IPs, f \in FileIds, hd \in HostDurations :
         handleUploadComplete(ip, f, hd)
    \/ \E ip \in IPs, f \in FileIds, hd \in HostDurations :
         handleUploadCompleteInvoiceNotSaved(ip, f, hd)
    \/ \E h \in Hashes : HandleWebhookSettled(h)
    \/ handlePaymentLookup
    \/ handlePaymentMarkPaid
    \/ handlePaymentDeleteInvoice
    \/ handlePaymentCallback
    \/ CleanupList
    \/ \E f \in FileIds : CleanupItem(f)
    \/ CleanupLimiter

SpecMint == Init /\ [][NextMint]_vars

(* ----------------------- cleanup before settlement -------------------- *)
\* handlePayment: store.UpdatePaymentStatus for a file that has its row
handlePaymentMarkPaidFound ==
    /\ watcher.file \in DOMAIN files
    /\ handlePaymentMarkPaid

\* handlePayment: store.UpdatePaymentStatus for a file whose row is gone:
\* no row is affected, ErrNotFound is returned and logged as CRITICAL, and
\* the handler goes on
handlePaymentMarkPaidNotFound ==
    /\ watcher.pc = "mark"
    /\ watcher.file \notin DOMAIN files
    /\ files' = UpdatePaymentStatus(files, watcher.file, now)
    /\ markPaidCalls' = [markPaidCalls EXCEPT
                          ![watcher.hash] = Count(@, MaxCalls)]
    /\ markFailed' = markFailed \cup {<<watcher.hash, watcher.file>>}
    /\ watcher' = [watcher EXCEPT !.pc = "del"]
    /\ resp' = NoResp
    /\ UNCHANGED <<now, blob, invoices, maps, updates, limiter, cleaner,
                   wallet, queued, clearCalls, crashed, acked, wh, upload>>

\* the cleanup and the settlements of the same files, with the outcome of
\* UpdatePaymentStatus told apart
NextRace ==
    \/ Tick
    \/ \E ip \in IPs, f \in FileIds : handleUploadStream(ip, f)
    \/ \E ip \in IPs, f \in FileIds, hd \in HostDurations :
         handleUploadComplete(ip, f, hd)
    \/ \E h \in Hashes : HandleWebhookSettled(h)
    \/ handlePaymentLookup
    \/ handlePaymentMarkPaidFound
    \/ handlePaymentMarkPaidNotFound
    \/ handlePaymentDeleteInvoice
    \/ handlePaymentCallback
    \/ CleanupList
    \/ \E f \in FileIds : CleanupItem(f)
    \/ CleanupLimiter

SpecRace == Init /\ [][NextRace]_vars

(* -------------------------- panicking callback ------------------------- *)
\* a callback that panics outside any recover: the watcher goroutine dies
handlePaymentCallbackPanicsNoRecover ==
    /\ watcher.pc = "cb"
    /\ watcher' = [watcher EXCEPT !.pc = "dead"]
    /\ resp' = NoResp
    /\ UNCHANGED <<now, blob, meta, maps, updates, limiter, cleaner, wallet,
                   history, wh, upload>>

\* handlePayment: cb(pending.FileID) panics; the deferred recover logs the
\* panic and handlePayment returns to the watcher's loop.  The callback may
\* or may not have cleared the limiter's entry before it panicked
handlePaymentCallbackPanics ==
    /\ watcher.pc = "cb"
    /\ \/ UNCHANGED limiter
       \/ /\ pendingByIP' = ClearByIP(pendingByIP, fileToIP, watcher.file)
          /\ fileToIP' = ClearToIP(fileToIP, watcher.file)
    /\ watcher' = Idle
    /\ resp' = NoResp
    /\ UNCHANGED <<now, blob, meta, maps, updates, cleaner, wallet, history,
                   wh, upload>>

\* uploads and settlements with a callback that may panic
NextPanic ==
    \/ Tick
    \/ \E ip \in IPs, f \in FileIds : handleUploadStream(ip, f)
    \/ \E ip \in IPs, f \in FileIds, hd \in HostDurations :
         handleUploadComplete(ip, f, hd)
    \/ \E h \in Hashes : HandleWebhookSettled(h)
    \/ handlePaymentLookup
    \/ handlePaymentMarkPaid
    \/ handlePaymentDeleteInvoice
    \/ handlePaymentCallback
    \/ handlePaymentCallbackPanics

SpecPanic == Init /\ [][NextPanic]_vars

(* ------------------------------ shutdown ------------------------------- *)
\* a goroutine that has returned from its loop
Stopped == [pc |-> "stopped", hash |-> 0, file |-> 0]

JanitorStopped == [pc |-> "stopped", todo |-> {}]

\* the updates channel has been closed (the mark follows the updates that
\* were buffered before)
Closed == updates # <<>> /\ updates[Len(updates)] = 0

\* the signal goroutine calls cancel(): a goroutine waiting in its select
\* with nothing else to receive is woken by ctx.Done() and returns
cancel ==
    /\ ~ctxDone
    /\ ctxDone' = TRUE
    /\ watcher' = IF watcher.pc = "idle" /\ updates = <<>>
                  THEN Stopped ELSE watcher
    /\ janitor' = IF janitor.pc = "idle" THEN JanitorStopped ELSE janitor
    /\ resp' = NoResp
    /\ UNCHANGED <<ticker, now, blob, meta, maps, updates, limiter, wallet,
                   history, wh, upload>>

\* StartPaymentWatcher's select takes case <-ctx.Done()
watcherDone ==
    /\ ctxDone
    /\ watcher.pc = "idle"
    /\ watcher' = Stopped
    /\ resp' = NoResp
    /\ UNCHANGED <<now, blob, meta, maps, updates, limiter, cleaner, wallet,
                   history, wh, upload>>

\* the cleanup goroutine's select takes case <-ctx.Done()
cleanupDone ==
    /\ ctxDone
    /\ janitor.pc = "idle"
    /\ janitor' = JanitorStopped
    /\ resp' = NoResp
    /\ UNCHANGED <<ticker, ctxDone, now, blob, meta, maps, updates, watcher,
                   limiter, wallet, history, wh, upload>>

\* MockLNDClient.Close: close(m.updates)
Close ==
    /\ ~Closed
    /\ updates' = Append(updates, 0)
    /\ resp' = NoResp
    /\ UNCHANGED <<now, blob, meta, maps, watcher, limiter, cleaner, wallet,
                   history, wh, upload>>

\* StartPaymentWatcher's select receives from the closed channel: !ok
watcherClosed ==
    /\ watcher.pc = "idle"
    /\ updates # <<>>
    /\ Head(updates) = 0
    /\ watcher' = Stopped
    /\ resp' = NoResp
    /\ UNCHANGED <<now, blob, meta, maps, updates, limiter, cleaner, wallet,
                   history, wh, upload>>

\* uploads, settlements and the cleanup until the process is told to stop.
\* A select with several ready cases takes any of them.  No tick is left
\* in the ticker's channel by a sweep, which is shorter than the period
NextShutdown ==
    \/ Tick
    \/ \E ip \in IPs, f \in FileIds : handleUploadStream(ip, f)
    \/ \E ip \in IPs, f \in FileIds, hd \in HostDurations :
         handleUploadComplete(ip, f, hd)
    \/ \E h \in Hashes : ~Closed /\ HandleWebhookSettled(h)
    \/ updates # <<>> /\ Head(updates) # 0 /\ handlePaymentLookup
    \/ handlePaymentMarkPaid
    \/ handlePaymentDeleteInvoice
    \/ handlePaymentCallback
    \/ ~ctxDone /\ CleanupList
    \/ \E f \in FileIds : CleanupItem(f)
    \/ CleanupLimiter
    \/ cancel
    \/ watcherDone
    \/ cleanupDone
    \/ Close
    \/ watcherClosed

SpecShutdown == Init /\ [][NextShutdown]_vars

(* --------------------------- abandoned uploads ------------------------- *)
\* uploads and the cleanup, where the clock goes on, the ticker keeps firing
\* and every sweep runs to its end; no client is bound to finalize
NextOrphan ==
    \/ Tick
    \/ \E ip \in IPs, f \in FileIds : handleUploadStream(ip, f)
    \/ \E ip \in IPs, f \in FileIds, hd \in HostDurations :
         handleUploadComplete(ip, f, hd)
    \/ CleanupList
    \/ \E f \in FileIds : CleanupItem(f)
    \/ CleanupLimiter

SpecOrphan ==
    /\ Init
    /\ [][NextOrphan]_vars
    /\ WF_vars(Tick)
    /\ WF_vars(CleanupList)
    /\ WF_vars(\E f \in FileIds : CleanupItem(f))
    /\ WF_vars(CleanupLimiter)

(* ---------------------------- mock wallet ------------------------------ *)
\* MockLNDClient.CreateInvoice's goroutine for invoice h: time.Sleep is over
\* and SimulatePayment(h) is called
MockAutoSettle(h) ==
    /\ h < nextHash
    /\ acked[h] = "no"
    /\ acked' = [acked EXCEPT ![h] = "sending"]
    /\ resp' = NoResp
    /\ UNCHANGED <<now, blob, meta, maps, updates, watcher, limiter, cleaner,
                   wallet, queued, markPaidCalls, clearCalls, markFailed,
                   crashed, wh, upload>>

\* MockLNDClient.SimulatePayment(h): m.updates <- update, a plain channel
\* send, which goes through only when the channel has room
SimulatePayment(h) ==
    /\ acked[h] = "sending"
    /\ Len(updates) < ChanCap
    /\ updates' = Append(updates, h)
    /\ queued' = [queued EXCEPT ![h] = Count(@, MaxDeliveries)]
    /\ acked' = [acked EXCEPT ![h] = "queued"]
    /\ resp' = NoResp
    /\ UNCHANGED <<now, blob, meta, maps, watcher, limiter, cleaner, wallet,
                   markPaidCalls, clearCalls, markFailed, crashed, wh, upload>>

\* uploads and settlements with the mock wallet as the channel's producer
NextMock ==
    \/ Tick
    \/ \E ip \in IPs, f \in FileIds : handleUploadStream(ip, f)
    \/ \E ip \in IPs, f \in FileIds, hd \in HostDurations :
         handleUploadComplete(ip, f, hd)
    \/ \E h \in Hashes : MockAutoSettle(h)
    \/ \E h \in Hashes : SimulatePayment(h)
    \/ handlePaymentLookup
    \/ handlePaymentMarkPaid
    \/ handlePaymentDeleteInvoice
    \/ handlePaymentCallback

SpecMock == Init /\ [][NextMock]_vars

(* ------------------------------ startup -------------------------------- *)
\* main's position before the server listens: "boot" after NewService,
\* "loaded" after LoadPendingInvoices returned, "started" after
\* StartPaymentWatcher returned
Booting(pc) == [pc |-> pc, hash |-> 0, file |-> 0]

\* http.Server.ListenAndServe has been reached: requests are served
Serving == watcher.pc \notin {"boot", "loaded", "started"}

\* the process dies and main runs again up to NewService: the maps, the
\* limiter and the channel of the new process are empty
mainNewService ==
    /\ Serving
    /\ pending' = EmptyMap
    /\ byFileID' = EmptyMap
    /\ updates' = <<>>
    /\ watcher' = Booting("boot")
    /\ pendingByIP' = EmptyMap
    /\ fileToIP' = EmptyMap
    /\ janitor' = JanitorIdle
    /\ crashed' = IF watcher.pc = "del" THEN crashed \cup {watcher.hash}
                                         ELSE crashed
    /\ resp' = NoResp
    /\ upload' = NoUpload
    /\ ctxDone' = FALSE
    /\ UNCHANGED <<ticker, now, blob, meta, wallet, calls, markFailed, acked,
                   wh>>

\* main: paymentsSvc.LoadPendingInvoices returns nil
mainLoadPendingInvoices ==
    /\ watcher.pc = "boot"
    /\ pending' = LoadedPending
    /\ \E m \in LoadedByFileID :
         byFileID' = [f \in DOMAIN m |-> NewPendingInvoice(f, m[f])]
    /\ watcher' = Booting("loaded")
    /\ resp' = NoResp
    /\ UNCHANGED <<now, blob, meta, updates, limiter, cleaner, wallet,
                   history, wh, upload>>

\* main: paymentsSvc.LoadPendingInvoices returns the store's error, which
\* is logged as a warning; main goes on
mainLoadPendingInvoicesFails ==
    /\ watcher.pc = "boot"
    /\ watcher' = Booting("loaded")
    /\ resp' = NoResp
    /\ UNCHANGED <<now, blob, meta, maps, updates, limiter, cleaner, wallet,
                   history, wh, upload>>

\* main: paymentsSvc.StartPaymentWatcher subscribes and starts the consumer
mainStartPaymentWatcher ==
    /\ watcher.pc = "loaded"
    /\ watcher' = Booting("started")
    /\ resp' = NoResp
    /\ UNCHANGED <<now, blob, meta, maps, updates, limiter, cleaner, wallet,
                   history, wh, upload>>

\* main: server.ListenAndServe
mainListenAndServe ==
    /\ watcher.pc = "started"
    /\ watcher' = Idle
    /\ resp' = NoResp
    /\ UNCHANGED <<now, blob, meta, maps, updates, limiter, cleaner, wallet,
                   history, wh, upload>>

\* lives of the process with main's steps from NewService to ListenAndServe
NextBoot ==
    \/ \E ip \in IPs, f \in FileIds : Serving /\ handleUploadStream(ip, f)
    \/ \E ip \in IPs, f \in FileIds, hd \in HostDurations :
         Serving /\ handleUploadComplete(ip, f, hd)
    \/ \E h \in Hashes : Serving /\ HandleWebhookSettled(h)
    \/ handlePaymentLookup
    \/ handlePaymentMarkPaid
    \/ handlePaymentDeleteInvoice
    \/ handlePaymentCallback
    \/ mainNewService
    \/ mainLoadPendingInvoices
    \/ mainLoadPendingInvoicesFails
    \/ mainStartPaymentWatcher
    \/ mainListenAndServe

SpecBoot == Init /\ [][NextBoot]_vars

(* ------------------------- background uploads -------------------------- *)
\* POST /api/upload from ip with a file of n bytes: the limiter is asked,
\* the body goes to a temp file, the tracker is stored and the goroutine
\* processBackgroundUpload is started (before its first attempt)
handleUpload(ip, n) ==
    /\ upload.status # "uploading"
    /\ CanUpload(pendingByIP, ip)
    /\ upload' = [status |-> "uploading", pc |-> "try", ip |-> ip, size |-> n,
                  attempt |-> 1, delay |-> InitialRetryDelay, slept |-> <<>>,
                  calls |-> 0, rows |-> 0, file |-> 0]
    /\ resp' = NoResp
    /\ UNCHANGED <<now, blob, meta, maps, updates, watcher, limiter, cleaner,
                   wallet, history, wh>>

\* generateID: an id that names no object and no row
FreshIds == FileIds \ (DOMAIN storage \cup DOMAIN files)

\* the loop's test after a failed attempt, without the bound on attempts
RetryAllowedAlways(attempt) == TRUE

\* attempt < MaxB2Retries: a failed attempt is followed by a retry
RetryAllowed(attempt) == attempt < MaxB2Retries

\* an attempt whose UploadWithProgress fails in storage.SaveWithProgress:
\* no row is written; a retry follows the sleep, the last attempt ends the
\* upload as "error"
processBackgroundUploadAttemptFails ==
    /\ upload.status = "uploading"
    /\ upload.pc = "try"
    /\ upload' = IF RetryAllowed(upload.attempt)
                 THEN [upload EXCEPT !.calls = @ + 1, !.pc = "sleep"]
                 ELSE [upload EXCEPT !.calls = @ + 1, !.pc = "done",
                                     !.status = "error"]
    /\ resp' = NoResp
    /\ UNCHANGED <<now, blob, meta, maps, updates, watcher, limiter, cleaner,
                   wallet, history, wh>>

\* time.Sleep(delay); delay *= 2; attempt++
processBackgroundUploadSleep ==
    /\ upload.status = "uploading"
    /\ upload.pc = "sleep"
    /\ upload' = [upload EXCEPT !.slept = Append(@, upload.delay),
                                !.delay = @ * 2,
                                !.attempt = @ + 1,
                                !.pc = "try"]
    /\ resp' = NoResp
    /\ UNCHANGED <<now, blob, meta, maps, updates, watcher, limiter, cleaner,
                   wallet, history, wh>>

\* an attempt whose UploadWithProgress succeeds under the new id f: the
\* object is saved and the row written with the size that was saved; then
\* the wallet fails to create the invoice
processBackgroundUploadNoInvoice(f, hd) ==
    /\ upload.status = "uploading"
    /\ upload.pc = "try"
    /\ f \in FreshIds
    /\ storage' = MapPut(storage, f, Object(upload.ip, upload.size))
    /\ files' = SaveFileMetadata(files, f, NewFileMeta(hd, upload.size))
    /\ upload' = [upload EXCEPT !.calls = @ + 1, !.rows = @ + 1, !.file = f,
                                !.pc = "done", !.status = "error"]
    /\ resp' = NoResp
    /\ UNCHANGED <<now, invoices, maps, updates, watcher, limiter, cleaner,
                   wallet, history, wh>>

\* an attempt whose UploadWithProgress succeeds under the new id f, the
\* invoice is created and the file is tracked for the uploader's address
processBackgroundUpload(f, hd) ==
    /\ upload.status = "uploading"
    /\ upload.pc = "try"
    /\ f \in FreshIds
    /\ nextHash <= MaxHashes
    /\ storage' = MapPut(storage, f, Object(upload.ip, upload.size))
    /\ LET h == nextHash IN
        /\ files' = SaveFileMetadata(files, f, NewFileMeta(hd, upload.size))
        /\ pending' = MapPut(pending, h, NewPendingInvoice(f, h))
        /\ byFileID' = MapPut(byFileID, f, NewPendingInvoice(f, h))
        /\ invoices' = SavePendingInvoice(invoices, h, f)
        /\ nextHash' = h + 1
        /\ UNCHANGED webhookSecret
    /\ pendingByIP' = TrackByIP(pendingByIP, upload.ip, f, now)
    /\ fileToIP' = MapPut(fileToIP, f, upload.ip)
    /\ upload' = [upload EXCEPT !.calls = @ + 1, !.rows = @ + 1, !.file = f,
                                !.pc = "done", !.status = "complete"]
    /\ resp' = NoResp
    /\ UNCHANGED <<now, updates, watcher, cleaner, history, wh>>

\* sizes of the files sent to POST /api/upload
UploadSizes == {1, BytesPerMB}

\* background uploads, with settlements and the cleanup
NextUpload ==
    \/ Tick
    \/ \E ip \in IPs, n \in UploadSizes : handleUpload(ip, n)
    \/ processBackgroundUploadAttemptFails
    \/ processBackgroundUploadSleep
    \/ \E f \in FileIds, hd \in HostDurations :
         processBackgroundUploadNoInvoice(f, hd)
    \/ \E f \in FileIds, hd \in HostDurations : processBackgroundUpload(f, hd)
    \/ \E h \in Hashes : HandleWebhookSettled(h)
    \/ handlePaymentLookup
    \/ handlePaymentMarkPaid
    \/ handlePaymentDeleteInvoice
    \/ handlePaymentCallback
    \/ CleanupList
    \/ \E f \in FileIds : CleanupItem(f)
    \/ CleanupLimiter

SpecUpload == Init /\ [][NextUpload]_vars

(* ------------------------- bodies of several sizes --------------------- *)
\* Content-Length values: none, under a MB, at and around the 100 MB where
\* the minimum stops to apply, and above MaxUploadSize
BodySizes ==
    {0, 1, MinAmountSats * BytesPerMB, (MinAmountSats + 1) * BytesPerMB - 1,
     (MinAmountSats + 1) * BytesPerMB, MaxUploadSize + 1}

NextSized ==
    \/ Tick
    \/ \E ip \in IPs, f \in FileIds, n \in BodySizes :
         handleUploadStreamSize(ip, f, n)
    \/ \E ip \in IPs, f \in FileIds, hd \in HostDurations :
         handleUploadComplete(ip, f, hd)
    \/ \E ip \in IPs, f \in FileIds, hd \in HostDurations :
         handleUploadCompleteNoInvoice(ip, f, hd)
    \/ \E ip \in IPs, f \in FileIds : handleUploadCompleteError(ip, f)
    \/ CleanupList
    \/ \E f \in FileIds : CleanupItem(f)
    \/ CleanupLimiter

SpecSized == Init /\ [][NextSized]_vars

(* ------------------------- declared sizes ------------------------------ *)
\* the "size" of an UploadInitRequest as the client writes it: negative,
\* zero, up to MaxUploadSize, above it, and beyond what an int64 holds
DeclaredSizes ==
    {0 - 1, 0, 1, MaxUploadSize, MaxUploadSize + 1, MaxInt64, MaxInt64 + 1}

\* json.NewDecoder(r.Body).Decode(&req) into Size int64
DecodeSize(n) ==
    IF n > MaxInt64 \/ n < 0 - MaxInt64 - 1
    THEN [err |-> TRUE, Size |-> 0]
    ELSE [err |-> FALSE, Size |-> n]

\* handleUploadInit without the test against MaxUploadSize
UploadInitStatusNoMax(ip, n) ==
    IF ~CanUpload(pendingByIP, ip) THEN 429
    ELSE IF DecodeSize(n).err THEN 400
    ELSE IF DecodeSize(n).Size <= 0 THEN 400
    ELSE 200

\* handleUploadInit: the status it answers when InitUpload does not fail
UploadInitStatus(ip, n) ==
    IF ~CanUpload(pendingByIP, ip) THEN 429
    ELSE IF DecodeSize(n).err THEN 400
    ELSE IF DecodeSize(n).Size <= 0 THEN 400
    ELSE IF DecodeSize(n).Size > MaxUploadSize THEN 413
    ELSE 200

\* POST /api/upload/init from ip with the declared size n: an id is
\* generated (InitUpload) only on the way to 200
handleUploadInitSize(ip, n) ==
    /\ resp' = [op |-> "init", id |-> ip, code |-> UploadInitStatus(ip, n),
                load |-> FALSE, size |-> n,
                file_id |-> (UploadInitStatus(ip, n) = 200)]
    /\ UNCHANGED <<now, blob, meta, maps, updates, watcher, limiter, cleaner,
                   wallet, history, wh, upload>>

\* the program with Reserve requests of any declared size
NextReserve ==
    \/ Next
    \/ \E ip \in IPs, n \in DeclaredSizes : handleUploadInitSize(ip, n)

SpecReserve == Init /\ [][NextReserve]_vars

(* ------------------------- ids as the client sends them ---------------- *)
\* len(id) <= 64 in the program; here the longest accepted id, with one
\* accepted id per file of the model
MaxIDLen == NumFiles

\* characters: one that [a-zA-Z0-9] matches and one that it does not
Alnum == {"a"}
Chars == Alnum \cup {"/"}

\* the ids a request may carry: any text of up to MaxIDLen + 1 characters
RawIds == UNION {[1..n -> Chars] : n \in 0..(MaxIDLen + 1)}

\* validFileIDPattern.MatchString: ^[a-zA-Z0-9]+$
MatchString(id) == id # <<>> /\ \A i \in 1..Len(id) : id[i] \in Alnum

\* isValidFileID without the bound on the length
isValidFileIDNoLength(id) == id # <<>> /\ MatchString(id)

isValidFileID(id) == id # <<>> /\ Len(id) <= MaxIDLen /\ MatchString(id)

\* the key under which storage and database see the id: the accepted ids
\* are the files 1..NumFiles, every other text is a key outside FileIds
FileKey(id) ==
    IF \A i \in 1..Len(id) : id[i] \in Alnum THEN Len(id) ELSE 0 - Len(id)

\* http.Error(w, "invalid file id", http.StatusBadRequest)
BadRequest ==
    /\ resp' = [op |-> "invalid file id", id |-> 0, code |-> 400,
                load |-> FALSE]
    /\ UNCHANGED <<now, blob, meta, maps, updates, watcher, limiter, cleaner,
                   wallet, history, wh, upload>>

\* GET /api/file/{id}/status: files.GetMetadata
handleStatus(x) ==
    /\ resp' = [op |-> "status", id |-> x,
                code |-> IF x \in DOMAIN files THEN 200 ELSE 404,
                load |-> FALSE]
    /\ UNCHANGED <<now, blob, meta, maps, updates, watcher, limiter, cleaner,
                   wallet, history, wh, upload>>

\* GET /api/file/{id}/invoice: payments.GetInvoiceForFile reads byFileID
handleGetInvoice(x) ==
    /\ resp' = [op |-> "invoice", id |-> x,
                code |-> IF x \in DOMAIN byFileID THEN 200 ELSE 404,
                load |-> FALSE]
    /\ UNCHANGED <<now, blob, meta, maps, updates, watcher, limiter, cleaner,
                   wallet, history, wh, upload>>

\* the five routes that take an id, each starting with isValidFileID
ServeUploadStream(ip, id) ==
    IF isValidFileID(id) THEN handleUploadStream(ip, FileKey(id))
    ELSE BadRequest

ServeUploadComplete(ip, id, hd) ==
    IF isValidFileID(id)
    THEN \/ handleUploadComplete(ip, FileKey(id), hd)
         \/ handleUploadCompleteNoInvoice(ip, FileKey(id), hd)
         \/ handleUploadCompleteError(ip, FileKey(id))
    ELSE BadRequest

ServeDownload(id) ==
    IF isValidFileID(id) THEN handleDownload(FileKey(id)) ELSE BadRequest

ServeStatus(id) ==
    IF isValidFileID(id) THEN handleStatus(FileKey(id)) ELSE BadRequest

ServeGetInvoice(id) ==
    IF isValidFileID(id) THEN handleGetInvoice(FileKey(id)) ELSE BadRequest

NextIds ==
    \/ Tick
    \/ \E ip \in IPs, id \in RawIds : ServeUploadStream(ip, id)
    \/ \E ip \in IPs, id \in RawIds, hd \in HostDurations :
         ServeUploadComplete(ip, id, hd)
    \/ \E id \in RawIds : ServeDownload(id)
    \/ \E id \in RawIds : ServeStatus(id)
    \/ \E id \in RawIds : ServeGetInvoice(id)
    \/ \E h \in Hashes : HandleWebhookSettled(h)
    \/ handlePaymentLookup
    \/ handlePaymentMarkPaid
    \/ handlePaymentDeleteInvoice
    \/ handlePaymentCallback

SpecIds == Init /\ [][NextIds]_vars

(* ------------------------- memo of the invoice ------------------------- *)
\* len(id) <= 64 in isValidFileID
MaxFileIDLen == 64

\* the length of the prefix of the id that CreateInvoiceForFile puts in
\* the memo: fileID[:8]
MemoIDLen == 8

\* the text of the id of file f in this section: file 1 has an id of
\* MemoIDLen - 1 characters, file 2 one of MemoIDLen characters, ...
FileIDText(f) == [i \in 1..(MemoIDLen - 2 + f) |-> "a"]

\* isValidFileID with the bound of the program
isValidFileIDFull(id) ==
    id # <<>> /\ Len(id) <= MaxFileIDLen /\ MatchString(id)

\* fileID[:8] is in range: Go panics on a slice bound above len(fileID)
SliceInRange(id) == MemoIDLen <= Len(id)

\* POST /api/upload/complete for an accepted id whose row is saved and
\* whose fileID[:8] is out of range: CreateInvoiceForFile panics before it
\* asks the wallet; the row stays, nothing is minted or tracked, and the
\* request gets no answer
handleUploadCompleteSlicePanics(ip, f, hd) ==
    /\ isValidFileIDFull(FileIDText(f))
    /\ CompleteUploadOk(f)
    /\ ~SliceInRange(FileIDText(f))
    /\ files' = SaveFileMetadata(files, f, NewFileMeta(hd, StatSize(f)))
    /\ resp' = [op |-> "panic", id |-> f, code |-> 0, load |-> FALSE]
    /\ UNCHANGED <<now, blob, invoices, maps, updates, watcher, limiter,
                   cleaner, wallet, history, wh, upload>>

\* the same request for an id of at least MemoIDLen characters
handleUploadCompleteMemo(ip, f, hd) ==
    /\ isValidFileIDFull(FileIDText(f))
    /\ SliceInRange(FileIDText(f))
    /\ handleUploadComplete(ip, f, hd)

\* uploads, settlements and the cleanup, with the ids as texts
NextMemo ==
    \/ Tick
    \/ \E ip \in IPs, f \in FileIds : handleUploadStream(ip, f)
    \/ \E ip \in IPs, f \in FileIds, hd \in HostDurations :
         handleUploadCompleteMemo(ip, f, hd)
    \/ \E ip \in IPs, f \in FileIds, hd \in HostDurations :
         handleUploadCompleteSlicePanics(ip, f, hd)
    \/ \E h \in Hashes : HandleWebhookSettled(h)
    \/ handlePaymentLookup
    \/ handlePaymentMarkPaid
    \/ handlePaymentDeleteInvoice
    \/ handlePaymentCallback
    \/ CleanupList
    \/ \E f \in FileIds : CleanupItem(f)
    \/ CleanupLimiter

SpecMemo == Init /\ [][NextMemo]_vars

(* ------------------------------- claims -------------------------------- *)
\* the webhook endpoint under any configured secret, with the clock
InitWebhook == \E secret \in Secrets : Start(secret)

NextWebhook ==
    \/ Tick
    \/ \E id \in SvixIds, ts \in TsHeaders, body \in Bodies :
         \E sig \in SigHeaders(id, ts, body) :
            HandleWebhook([id |-> id, ts |-> ts, sig |-> sig, body |-> body])

SpecWebhook == InitWebhook /\ [][NextWebhook]_vars

\* uploads, settlements and restarts at one instant.  The wallet delivers
\* every settlement again and again, the process is restarted again and
\* again, and between restarts the watcher goroutine gets to run and the
\* database write gets to succeed.
NextRedelivery ==
    \/ \E ip \in IPs, f \in FileIds : handleUploadStream(ip, f)
    \/ \E ip \in IPs, f \in FileIds, hd \in HostDurations :
         handleUploadComplete(ip, f, hd)
    \/ \E h \in Hashes : HandleWebhookSettled(h)
    \/ handlePaymentLookup
    \/ handlePaymentMarkPaid
    \/ handlePaymentMarkPaidFails
    \/ handlePaymentDeleteInvoice
    \/ handlePaymentCallback
    \/ Restart

SpecRedelivery ==
    /\ Init
    /\ [][NextRedelivery]_vars
    /\ \A h \in Hashes : SF_vars(HandleWebhookSettled(h))
    /\ SF_vars(handlePaymentLookup)
    /\ SF_vars(handlePaymentMarkPaid)
    /\ SF_vars(handlePaymentDeleteInvoice)
    /\ SF_vars(handlePaymentCallback)
    /\ WF_vars(Restart)

\* uploads, settlements and restarts at one instant, with a wallet that
\* delivers each settlement until it is answered 200.  The watcher goroutine
\* gets to run, the database does not fail and the process is restarted
\* again and again.
NextAcked ==
    \/ \E ip \in IPs, f \in FileIds : handleUploadStream(ip, f)
    \/ \E ip \in IPs, f \in FileIds, hd \in HostDurations :
         handleUploadComplete(ip, f, hd)
    \/ \E h \in Hashes : handleAlbyWebhook(h)
    \/ handlePaymentLookup
    \/ handlePaymentMarkPaid
    \/ handlePaymentDeleteInvoice
    \/ handlePaymentCallback
    \/ Restart

SpecAcked ==
    /\ Init
    /\ [][NextAcked]_vars
    /\ \A h \in Hashes : SF_vars(handleAlbyWebhook(h))
    /\ SF_vars(handlePaymentLookup)
    /\ SF_vars(handlePaymentMarkPaid)
    /\ SF_vars(handlePaymentDeleteInvoice)
    /\ SF_vars(handlePaymentCallback)
    /\ WF_vars(Restart)

\* one life of the process with the cleanup on its ticker, where storage
\* and database do not fail
InitTimed == Boot([prefixed |-> TRUE, text |-> 1], Interval)

NextTimed ==
    \/ TickTimed
    \/ TickerFires
    \/ \E f \in FileIds : CleanupItem(f)
    \/ CleanupLimiter
    \/ \E ip \in IPs, f \in FileIds : handleUploadStream(ip, f)
    \/ \E ip \in IPs, f \in FileIds, hd \in HostDurations :
         handleUploadComplete(ip, f, hd)
    \/ \E h \in Hashes : HandleWebhookSettled(h)
    \/ handlePaymentLookup
    \/ handlePaymentMarkPaid
    \/ handlePaymentDeleteInvoice
    \/ handlePaymentCallback

SpecTimed == InitTimed /\ [][NextTimed]_vars

\* the program on a clock that may move on between two readings that one
\* handler takes
NextClock ==
    \/ Next
    \/ \E ip \in IPs, f \in FileIds, hd \in HostDurations :
         handleUploadCompleteLate(ip, f, hd)

SpecClock == Init /\ [][NextClock]_vars

\* clients at several addresses that may upload under the same file id,
\* which the handlers take from the request
Sharers == 1..NumSharers

NextShared ==
    \/ Tick
    \/ \E ip \in Sharers, f \in FileIds : handleUploadStream(ip, f)
    \/ \E ip \in Sharers, f \in FileIds, hd \in HostDurations :
         handleUploadComplete(ip, f, hd)
    \/ \E ip \in Sharers : handleUploadInit(ip)
    \/ \E h \in Hashes : HandleWebhookSettled(h)
    \/ handlePaymentLookup
    \/ handlePaymentMarkPaid
    \/ handlePaymentDeleteInvoice
    \/ handlePaymentCallback
    \/ CleanupList
    \/ \E f \in FileIds : CleanupItem(f)
    \/ CleanupLimiter

SpecShared == Init /\ [][NextShared]_vars

\* the program with the answers of the refused finalize requests
NextFinalize ==
    \/ Next
    \/ \E ip \in IPs, f \in FileIds : handleUploadCompleteError(ip, f)

SpecFinalize == Init /\ [][NextFinalize]_vars

\* the program with uploads that break off
NextStream ==
    \/ Next
    \/ \E ip \in IPs, f \in FileIds : handleUploadStreamFails(ip, f)

SpecStream == Init /\ [][NextStream]_vars

\* C1: once a file's row has paid = true, no step (settlement, duplicate or
\* late settlement, cleanup, restart) changes that row's paid back to false.
PaidNeverReverts ==
    [][\A f \in FileIds :
         (f \in DOMAIN files /\ files[f].paid /\ f \in DOMAIN files')
             => files'[f].paid]_vars

\* a paid row is there after a duplicate settlement of some hash went through
\* the watcher and the process was restarted in the middle of a settlement
PaidNeverRevertsWitness ==
    /\ \E f \in DOMAIN files : files[f].paid
    /\ \E h \in Hashes : queued[h] >= 2 /\ markPaidCalls[h] >= 1
    /\ crashed # {}
    /\ updates = <<>>
    /\ watcher.pc = "idle"

\* C2: within one life of the process, a hash whose settlement event was put
\* on the channel k >= 1 times gets exactly one UpdatePaymentStatus call and
\* exactly one callback invocation once its events have been consumed, and
\* never more than one of either.
SettlementIdempotence ==
    \A h \in Hashes :
        LET inFlight == (\E i \in 1..Len(updates) : updates[i] = h)
                        \/ watcher.hash = h
        IN /\ markPaidCalls[h] <= 1
           /\ clearCalls[h] <= 1
           /\ (queued[h] >= 1 /\ ~inFlight)
                 => (markPaidCalls[h] = 1 /\ clearCalls[h] = 1)

\* a hash delivered twice, both events consumed
SettlementIdempotenceWitness ==
    \E h \in Hashes :
        /\ queued[h] = 2
        /\ \A i \in 1..Len(updates) : updates[i] # h
        /\ watcher.hash # h
        /\ markPaidCalls[h] = 1
        /\ clearCalls[h] = 1

\* C3: a download of x opens the storage stream only when x's row exists, is
\* paid and now is not after expires_at; an unpaid row answers 402, a paid
\* row past expires_at answers 410, a missing row answers 404.
RetrievalGate ==
    resp.op = "download" =>
        LET x == resp.id
            row == x \in DOMAIN files
        IN /\ resp.load => (row /\ files[x].paid /\ ~(now > files[x].expires_at))
           /\ (resp.code = 200) <=> resp.load
           /\ (row /\ ~files[x].paid) => resp.code = 402
           /\ (row /\ files[x].paid /\ now > files[x].expires_at)
                 => resp.code = 410
           /\ ~row => resp.code = 404

\* a download that opened the stream
RetrievalGateWitness ==
    /\ resp.op = "download"
    /\ resp.load
    /\ resp.code = 200
    /\ files[resp.id].paid

\* C4: for every IP the limiter holds at most MaxPending pending files after
\* every operation.
LimiterAdmissionLaw ==
    \A ip \in IPs : PendingCount(pendingByIP, ip) <= MaxPending

\* C5: the number of unpaid objects one IP has in storage at one time never
\* exceeds the limiter's bound.
UnpaidBlobsBounded ==
    \A ip \in IPs :
        Cardinality({f \in DOMAIN storage :
                       /\ storage[f].ip = ip
                       /\ ~(f \in DOMAIN files /\ files[f].paid)}) <= MaxPending

\* C6: UpdatePaymentStatus(id, true) on an existing row writes paid = true and
\* expires_at = now + the row's host_duration in one step, and no other step
\* changes an existing row: a row is never seen paid with its pending expiry.
MarkPaidAtomicWrite ==
    [][/\ \A f \in FileIds :
            (f \in DOMAIN files /\ f \in DOMAIN files' /\ files'[f] # files[f])
                => /\ files'[f].paid
                   /\ files'[f].host_duration = files[f].host_duration
                   /\ files'[f].expires_at * NsPerSecond
                          = now * NsPerSecond + files[f].host_duration
       /\ (/\ watcher.pc = "mark"
           /\ watcher'.pc = "del"
           /\ markFailed' = markFailed
           /\ watcher.file \in DOMAIN files)
            => /\ files'[watcher.file].paid
               /\ files'[watcher.file].expires_at * NsPerSecond
                      = now * NsPerSecond + files[watcher.file].host_duration
      ]_vars

\* the watcher has just marked a file paid, later than the file was finalized
MarkPaidAtomicWriteWitness ==
    /\ watcher.pc = "del"
    /\ <<watcher.hash, watcher.file>> \notin markFailed
    /\ watcher.file \in DOMAIN files
    /\ files[watcher.file].paid
    /\ now >= 1
    /\ files[watcher.file].expires_at * NsPerSecond
           = now * NsPerSecond + files[watcher.file].host_duration

\* the request carries the three headers, a numeric timestamp within the
\* tolerance of now, and a v1 entry that is the signature of
\* (id, timestamp, body) under the key the configured secret decodes to
WebhookAuthentic ==
    LET r == wh.req IN
    /\ r.id # 0
    /\ r.ts.kind = "int"
    /\ r.sig # <<>>
    /\ now - r.ts.unix <= Tolerance
    /\ r.ts.unix - now <= Tolerance
    /\ webhookSecret.text # 0
    /\ \E i \in 1..Len(r.sig) :
          r.sig[i] = [parts |-> 2, version |-> "v1",
                      sig |-> <<webhookSecret.text, r.id, r.ts, r.body>>]

NoDuplicateMarkPaidAfterCrash ==
    \A h \in crashed : markPaidCalls[h] <= 1

MarkPaidFailureRecovers ==
    \A h \in Hashes, f \in FileIds :
        (<<h, f>> \in markFailed) ~> (f \in DOMAIN files /\ files[f].paid)

\* C11: a file whose verified settlement event was dropped because the
\* channel was full is eventually paid.
DroppedSettlementRecovers ==
    \A h \in Hashes, f \in FileIds :
        (acked[h] = "dropped" /\ h \in DOMAIN invoices /\ invoices[h] = f)
            ~> (f \in DOMAIN files /\ files[f].paid)

KeepsRowAndBlob(f) ==
    /\ (f \in DOMAIN files) = (f \in DOMAIN files')
    /\ f \in DOMAIN files => files'[f] = files[f]
    /\ (f \in DOMAIN storage) = (f \in DOMAIN storage')
    /\ f \in DOMAIN storage => storage'[f] = storage[f]

\* C13: a sweep without failures lists exactly the rows with expires_at < now,
\* each of its steps removes row and object of one listed file and touches
\* no other file, and it ends only when every listed file has been handled;
\* so the files expiring now or later, paid or unpaid, keep row and object
SweepEffect ==
    [][janitor' # janitor =>
        /\ janitor.pc = "idle" =>
              /\ janitor'.todo =
                   {f \in DOMAIN files : files[f].expires_at < now}
              /\ \A f \in FileIds : KeepsRowAndBlob(f)
        /\ janitor.pc = "sweep" =>
              \A f \in FileIds :
                  IF f \in janitor.todo \ janitor'.todo
                  THEN f \notin DOMAIN files' /\ f \notin DOMAIN storage'
                  ELSE KeepsRowAndBlob(f)
        /\ janitor'.pc = "idle" => janitor.todo = {}]_vars

\* a sweep has deleted one file that was finalized and has kept the other,
\* which expires now or later
SweepEffectWitness ==
    /\ janitor.pc = "sweep"
    /\ janitor.todo = {}
    /\ nextHash = 3
    /\ \E f, g \in FileIds :
         /\ f \notin DOMAIN files
         /\ f \notin DOMAIN storage
         /\ g \in DOMAIN files
         /\ g \in DOMAIN storage
         /\ files[g].expires_at >= now
\* C14: every unpaid row has expires_at = created_at + PendingTimeout
UnpaidExpiry ==
    \A f \in DOMAIN files :
        ~files[f].paid =>
            files[f].expires_at = files[f].created_at + PendingTimeout
\* C15: when an IP holds MaxPending tracked files, so that its Reserve is
\* answered 429, the callback for the settlement of one of them takes the
\* file out of that IP's pending set and the IP's next Reserve is admitted
SettlementFreesSlot ==
    [][\A ip \in DOMAIN pendingByIP :
          (/\ watcher.pc = "cb"
           /\ watcher'.pc = "idle"
           /\ PendingCount(pendingByIP, ip) = MaxPending
           /\ watcher.file \in DOMAIN pendingByIP[ip])
          => /\ ~(/\ ip \in DOMAIN pendingByIP'
                  /\ watcher.file \in DOMAIN pendingByIP'[ip])
             /\ CanUpload(pendingByIP', ip)]_vars

\* C16: a webhook puts an event on the channel only if it is verified and
\* its body has settled = true and a payment_hash that is not empty; a
\* verified one with settled = false is answered without error and leaves
\* the channel alone; one that is not verified is an error and leaves the
\* channel alone
SettledOnlyOnChannel ==
    [][wh'.seen =>
        LET r == wh'.req IN
        /\ updates' # updates =>
              /\ WebhookAuthentic'
              /\ wh'.err = "none"
              /\ r.body.json /\ r.body.settled /\ r.body.hash # 0
              /\ updates' = Append(updates, r.body.hash)
        /\ (WebhookAuthentic' /\ r.body.json /\ ~r.body.settled) =>
              wh'.err = "none" /\ updates' = updates
        /\ ~WebhookAuthentic' =>
              wh'.err # "none" /\ updates' = updates]_vars

\* a verified notification with settled = false has been answered without
\* error, and the channel still holds only the settled event from before
SettledOnlyOnChannelWitness ==
    /\ wh.seen
    /\ wh.err = "none"
    /\ wh.req.body.json
    /\ ~wh.req.body.settled
    /\ updates = <<wh.req.body.hash>>

\* the last request was a Reserve with a declared size
ReserveSeen == resp.op = "init" /\ "size" \in DOMAIN resp

\* C21 as stated: a Reserve whose declared size is above MaxUploadSize is
\* answered 413 and gets no id
OversizeReserveIs413 ==
    (ReserveSeen /\ resp.size > MaxUploadSize) =>
        (resp.code = 413 /\ ~resp.file_id)

\* C21 amended: a Reserve whose declared size is above MaxUploadSize gets
\* no id; it is answered 429 when the address is at its pending limit,
\* else 400 when the size does not fit the request's integer, else 413
OversizeReserveRefused ==
    (ReserveSeen /\ resp.size > MaxUploadSize) =>
        /\ ~resp.file_id
        /\ resp.code = (IF ~CanUpload(pendingByIP, resp.id) THEN 429
                        ELSE IF resp.size > MaxInt64 THEN 400
                        ELSE 413)

\* a Reserve of MaxUploadSize + 1 from an address under its limit that has
\* a finalized file was answered 413
OversizeReserveRefusedWitness ==
    /\ ReserveSeen
    /\ resp.size = MaxUploadSize + 1
    /\ resp.code = 413
    /\ DOMAIN files # {}

\* C24: once LoadPendingInvoices has returned at startup, and before the
\* payment watcher reads an update or a webhook is served, every
\* pending_invoices row is in the service's maps, and nothing has been
\* queued for the watcher
LoadedBeforeConsuming ==
    ~Serving =>
        /\ updates = <<>>
        /\ watcher.pc \in {"loaded", "started"} =>
              /\ pending = LoadedPending
              /\ \A h \in DOMAIN invoices :
                    invoices[h] \in DOMAIN byFileID

\* C25: no step takes away the object or the row of a file that is paid
\* and not expired when the step is taken, whatever was settled since the
\* cleanup listed its expired rows
JanitorSparesPaid ==
    [][\A f \in DOMAIN files :
          (files[f].paid /\ ~(files[f].expires_at < now)) =>
              /\ f \in DOMAIN files'
              /\ (f \in DOMAIN storage => f \in DOMAIN storage')]_vars

\* C26: whenever the watcher is between events, pending and byFileID are
\* inverses: pending[h] names file f exactly when byFileID[f] names hash h
MapsAreInverses ==
    watcher.pc = "idle" =>
        \A h \in Hashes, f \in FileIds :
            (h \in DOMAIN pending /\ pending[h].FileID = f)
              <=> (f \in DOMAIN byFileID /\ byFileID[f].PaymentHash = h)

\* C27: UpdatePaymentStatus is called only for an invoice that was minted
\* (its file's row was saved by the handler that minted it) and before that
\* event's callback; the callback of an event runs only after its
\* UpdatePaymentStatus call; and an address at its limit is admitted again
\* only once a callback has returned or the limiter's own sweep has run
SettlementOrder ==
    [][/\ \A h \in Hashes :
            markPaidCalls'[h] # markPaidCalls[h] =>
                /\ watcher.pc = "mark" /\ watcher.hash = h
                /\ h < nextHash
                /\ clearCalls[h] <= markPaidCalls[h]
       /\ \A h \in Hashes :
            clearCalls'[h] # clearCalls[h] =>
                /\ watcher.pc = "cb" /\ watcher.hash = h
                /\ markPaidCalls[h] >= 1
       /\ \A ip \in IPs :
            (~CanUpload(pendingByIP, ip) /\ CanUpload(pendingByIP', ip)) =>
                \/ watcher.pc = "cb" /\ watcher' = Idle
                \/ janitor.pc = "sweep" /\ janitor' = JanitorIdle]_vars

\* a reservation is admitted after a settlement's callback freed the only
\* slot of the address, before any limiter sweep could have
SettlementOrderWitness ==
    /\ resp.op = "init" /\ resp.code = 200
    /\ now = 0
    /\ \E h \in Hashes : clearCalls[h] >= 1 /\ markPaidCalls[h] >= 1
    /\ \E f \in DOMAIN files : files[f].paid

\* C30: no producer waits at its send to the updates channel while the
\* channel is full
NoBlockedProducer ==
    \A h \in Hashes : acked[h] = "sending" => Len(updates) < ChanCap

\* C28: when the watcher receives an update whose hash is not in pending,
\* the step changes neither map, no row and nothing of the limiter, calls
\* neither UpdatePaymentStatus nor the callback, and leaves the watcher
\* waiting for the next update
UnknownHashDropped ==
    [][(/\ watcher.pc = "idle"
        /\ updates # <<>>
        /\ updates' = Tail(updates)
        /\ Head(updates) \notin DOMAIN pending) =>
           /\ watcher' = Idle
           /\ UNCHANGED <<pending, byFileID, files, invoices, pendingByIP,
                          fileToIP, markPaidCalls, clearCalls>>]_vars

\* a hash was queued twice and received twice; it was marked paid and
\* cleared once
UnknownHashDroppedWitness ==
    /\ watcher.pc = "idle"
    /\ updates = <<>>
    /\ \E h \in Hashes :
          /\ queued[h] = 2
          /\ markPaidCalls[h] = 1
          /\ clearCalls[h] = 1
          /\ h \notin DOMAIN pending

RetryThenOneRow ==
    upload.status # "none" =>
        /\ upload.calls <= MaxB2Retries
        /\ upload.rows <= 1
        /\ (upload.calls = 3 /\ upload.rows = 1) =>
              /\ upload.slept = <<1, 2>>
              /\ upload.pc = "done"
              /\ upload.status \in {"complete", "error"}
        /\ upload.status = "complete" => upload.rows = 1
        /\ (upload.status = "complete" /\ upload.file \in DOMAIN files) =>
              /\ upload.file \in DOMAIN storage
              /\ files[upload.file].size = storage[upload.file].size
              /\ files[upload.file].size = upload.size

\* an upload is complete after two failed attempts and a third that saved
\* a file of one MB, with its row
RetryThenOneRowWitness ==
    /\ upload.status = "complete"
    /\ upload.calls = 3
    /\ upload.slept = <<1, 2>>
    /\ upload.size = BytesPerMB
    /\ upload.file \in DOMAIN files

\* C23: the invoice of a finalized file is for max(100, floor(size /
\* 1048576)) sats, size being the size in the file's row
InvoiceAmount ==
    (resp.op = "complete" /\ resp.code = 200) =>
        LET size == files[resp.id].size
            mb == CHOOSE q \in 0..(size \div BytesPerMB + 1) :
                      q * BytesPerMB <= size /\ size < (q + 1) * BytesPerMB
        IN /\ resp.size = size
           /\ resp.amount_sats >= MinAmountSats
           /\ resp.amount_sats >= mb
           /\ resp.amount_sats \in {MinAmountSats, mb}

\* a file of one byte under 101 MB has been finalized at the minimum
InvoiceAmountWitness ==
    /\ resp.op = "complete"
    /\ resp.code = 200
    /\ files[resp.id].size = (MinAmountSats + 1) * BytesPerMB - 1
    /\ resp.amount_sats = MinAmountSats

\* the ids that match ^[A-Za-z0-9]{1,64}$, as keys
MatchingKeys ==
    {FileKey(id) : id \in {r \in RawIds :
                              /\ Len(r) \in 1..MaxIDLen
                              /\ \A i \in 1..Len(r) : r[i] \in Alnum}}

\* C17: objects, rows, invoices and limiter entries exist only under ids
\* that match ^[A-Za-z0-9]{1,64}$, and a retrieval, status or invoice lookup
\* reaches storage or database only with such an id; a request with any
\* other id is answered 400
IdValidationClosure ==
    /\ DOMAIN storage \subseteq MatchingKeys
    /\ DOMAIN files \subseteq MatchingKeys
    /\ DOMAIN byFileID \subseteq MatchingKeys
    /\ DOMAIN fileToIP \subseteq MatchingKeys
    /\ {invoices[h] : h \in DOMAIN invoices} \subseteq MatchingKeys
    /\ resp.op \in {"download", "status", "invoice"} =>
          resp.id \in MatchingKeys
    /\ resp.op = "invalid file id" => resp.code = 400

\* a request with an id outside the pattern has been answered 400 while a
\* finalized file exists
IdValidationClosureWitness ==
    /\ resp.op = "invalid file id"
    /\ resp.code = 400
    /\ DOMAIN files = FileIds

\* C19: when a stream to an id that had no object fails, the id has no
\* object once the request is answered
FailedStreamLeavesNothing ==
    [][(/\ resp'.op = "stream"
        /\ resp'.code = 500
        /\ resp'.id \notin DOMAIN storage)
       => resp'.id \notin DOMAIN storage']_vars

\* the state that a finalize request may change is as it was
FinalizeLeavesNoTrace ==
    /\ files' = files
    /\ invoices' = invoices
    /\ pending' = pending
    /\ byFileID' = byFileID
    /\ nextHash' = nextHash
    /\ pendingByIP' = pendingByIP
    /\ fileToIP' = fileToIP

FinalizedObjectImmutable ==
    [][\A f \in DOMAIN files :
          (f \in DOMAIN storage /\ f \in DOMAIN storage') =>
              storage'[f] = storage[f]]_vars

\* C32: fileToIP holds exactly the file ids of the per-address pending
\* sets, each with the address whose set holds it
ReverseIndexExact ==
    \A f \in FileIds, ip \in Sharers :
        (f \in DOMAIN fileToIP /\ fileToIP[f] = ip)
          <=> (ip \in DOMAIN pendingByIP /\ f \in DOMAIN pendingByIP[ip])

\* C33: when the watcher calls UpdatePaymentStatus for a file whose row
\* the cleanup has deleted, no row is created or changed and the watcher
\* goes on with the rest of handlePayment, after which it is idle again
SettlementAfterCleanup ==
    [][(/\ watcher.pc = "mark"
        /\ watcher.file \notin DOMAIN files
        /\ watcher' # watcher) =>
           /\ files' = files
           /\ <<watcher.hash, watcher.file>> \in markFailed'
           /\ watcher' = [watcher EXCEPT !.pc = "del"]]_vars

\* the settlement of a deleted file got ErrNotFound and was finished; a
\* later settlement has marked its file paid and is at its callback
SettlementAfterCleanupWitness ==
    \E h \in Hashes, f \in FileIds :
        /\ <<h, f>> \in markFailed
        /\ clearCalls[h] >= 1
        /\ watcher.pc = "cb"
        /\ watcher.hash # h
        /\ watcher.file \in DOMAIN files
        /\ files[watcher.file].paid

\* C34: a row leaves the table only together with its object or when
\* there is no object left; each step of a sweep settles exactly one listed
\* file and keeps the others listed, and the sweep ends only when none is
\* left
SweepKeepsRowOnStorageError ==
    [][/\ \A f \in DOMAIN files :
            f \notin DOMAIN files' => f \notin DOMAIN storage'
       /\ (janitor.pc = "sweep" /\ janitor'.pc = "sweep"
             /\ janitor' # janitor) =>
              \E f \in janitor.todo : janitor'.todo = janitor.todo \ {f}
       /\ (janitor.pc = "sweep" /\ janitor'.pc = "idle") =>
              janitor.todo = {}]_vars

\* a sweep has gone through its list: one expired file still has its
\* object and its row, the other has been deleted
SweepKeepsRowOnStorageErrorWitness ==
    /\ janitor.pc = "sweep"
    /\ janitor.todo = {}
    /\ nextHash = 3
    /\ \E f, g \in FileIds :
          /\ f \in DOMAIN files /\ f \in DOMAIN storage
          /\ ~files[f].paid /\ files[f].expires_at < now
          /\ g \notin DOMAIN files /\ g \notin DOMAIN storage

\* C35: whatever the callback of a settlement does, the step that ends it
\* leaves the watcher waiting for the next update, outside the locked
\* section, with the maps, the rows and the queued updates untouched
PanicContained ==
    [][(watcher.pc = "cb" /\ watcher' # watcher) =>
           /\ watcher' = Idle
           /\ UNCHANGED <<pending, byFileID, files, invoices, updates>>]_vars

\* the settlement of one hash ended without a completed callback, and a
\* later settlement has marked its file paid and completed its callback
PanicContainedWitness ==
    /\ watcher.pc = "idle"
    /\ \E h, g \in Hashes :
          /\ markPaidCalls[h] = 1 /\ clearCalls[h] = 0
          /\ h \notin DOMAIN pending /\ h \notin DOMAIN invoices
          /\ h < g
          /\ markPaidCalls[g] = 1 /\ clearCalls[g] = 1
    /\ \A f \in FileIds : f \in DOMAIN files /\ files[f].paid

\* C36: once ctx is cancelled no sweep is started and the watcher
\* receives no further update; a goroutine that has returned stays so, and
\* the watcher returns when it receives from the closed channel
StopsOnCancel ==
    [][/\ ctxDone =>
            /\ ~(janitor.pc = "idle" /\ janitor'.pc = "sweep")
            /\ ~(watcher.pc = "idle" /\ watcher'.pc = "mark")
            /\ ~(updates # <<>> /\ updates' = Tail(updates))
       /\ watcher.pc = "stopped" => watcher' = watcher
       /\ janitor.pc = "stopped" => janitor' = janitor
       /\ (watcher.pc = "idle" /\ updates # <<>> /\ Head(updates) = 0
             /\ watcher' # watcher) => watcher' = Stopped]_vars

\* C37: an object stored under an id that has no metadata row gets a row
\* or is deleted in the end
OrphansCollected ==
    \A f \in FileIds :
        (f \in DOMAIN storage /\ f \notin DOMAIN files)
          ~> (f \in DOMAIN files \/ f \notin DOMAIN storage)


\* C38: a file whose metadata row is saved, unpaid and not yet expired is
\* payable: GET /api/file/{id}/invoice finds its invoice, or a retried
\* POST /api/upload/complete is accepted and mints one
InvoiceObtainable(f) == f \in DOMAIN byFileID \/ CompleteUploadOk(f)

PayableAfterFailedMint ==
    \A f \in FileIds :
        (f \in DOMAIN files /\ ~files[f].paid /\ now < files[f].expires_at)
            => InvoiceObtainable(f)


\* C39: every invoice entry of the maps pending and byFileID refers to a
\* file whose metadata row exists: the cleanup that deletes an unpaid
\* expired file leaves no entry of it behind
InvoiceEntriesHaveRows ==
    /\ \A h \in DOMAIN pending : pending[h].FileID \in DOMAIN files
    /\ \A f \in DOMAIN byFileID : f \in DOMAIN files


\* C40: finalizing an upload and minting its invoice never panics, for
\* any accepted file id, ids shorter than eight characters included
FinalizeNeverPanics == resp.op # "panic"

====
